---- MODULE Spec2Model ----
(***************************************************************************)
(* Drift monitoring of the Iris endpoint: the Model Monitor record         *)
(* preprocessor (monitoring/record_preprocessor.py) and the data-capture   *)
(* Lambda handler embedded in monitoring/drift_lambda.py and               *)
(* monitoring/deploy_monitoring.py.                                        *)
(* Further sections model the baseline build, the drift alarm and the      *)
(* deployment steps: the S3 trigger, the Lambda update, the endpoint's     *)
(* data capture and the monitoring schedule.                               *)
(*                                                                         *)
(* Text is modelled as a sequence of lexical tokens: [c |-> a] is the      *)
(* run of characters a (a numeric literal, a word, one punctuation or      *)
(* white-space character), [q |-> t] is a double-quoted JSON string whose  *)
(* content is the text t.  Numbers are kept in tenths (5.1 is 51).         *)
(***************************************************************************)
EXTENDS Integers, Sequences, FiniteSets, TLC

VARIABLES
  rec,        \* preprocess_handler: the inference record handed in
  result,     \* preprocess_handler: what the call produced
  npc         \* preprocess_handler: "ready" | "done"

nvars == <<rec, result, npc>>

VARIABLES
  variant,        \* which embedded lambda_function.py runs
  SNS_TOPIC_ARN,  \* os.environ.get("SNS_TOPIC_ARN", "")
  pc,             \* position of the handler
  seen,           \* event["Records"] entries consumed so far
  items,          \* what _parse_jsonl(body) has still to yield
  rowsPending,    \* rows of the current item still to validate
  total_issues,   \* handler local total_issues / total
  samples,        \* handler local samples
  ret,            \* the handler's return value
  cause,          \* why the handler raised
  metricCalls,    \* values handed to cw.put_metric_data
  metricFailed,   \* put_metric_data raised
  snsCalls,       \* messages handed to sns.publish
  snsFailed,      \* sns.publish raised
  printed,        \* what _publish_metric / _alert printed
  violations,     \* history: every row found with issues, in order
  validated,      \* history: every row handed to _validate_row, in order
  captured,       \* history: captured records (non-blank lines) in the event's objects
  dropped         \* history: captured records of which no row was validated

hvars == <<variant, SNS_TOPIC_ARN, pc, seen, items, rowsPending, total_issues, samples,
           ret, cause, metricCalls, metricFailed, snsCalls, snsFailed, printed,
           violations, validated, captured, dropped>>

VARIABLES
  dataset,    \* baseline_build: the rows of the object at --train-data-s3-uri
  bpc,        \* baseline_build: position of main
  df,         \* baseline_build: the data frame after dropna()
  baseline,   \* baseline_build: baseline["features"], in insertion order
  stored,     \* the object at --baseline-s3-uri
  puts,       \* history: put_object calls that went through
  berr        \* why main raised

bvars == <<dataset, bpc, df, baseline, stored, puts, berr>>

VARIABLES
  apc,          \* mm_create_drift_alarm: position of main
  threshold,    \* args.threshold, in tenths
  alarms,       \* the alarms put so far: feature -> its parameters
  alarmState,   \* CloudWatch: feature -> state of its alarm
  notified,     \* CloudWatch: what the alarms sent to the topic, in order
  evals         \* history: evaluation periods gone by

avars == <<apc, threshold, alarms, alarmState, notified, evals>>

VARIABLES
  inv,        \* concurrent invocations: invocation -> the locals of its handler call
  cwSink,     \* CloudWatch: the values received, with the invocation that sent each
  snsSink     \* the topic: the messages received, with the invocation that sent each

cvars == <<inv, cwSink, snsSink>>

VARIABLES
  tpc,       \* ensure_s3_trigger: position of the call
  tbucket,   \* ensure_s3_trigger: the bucket argument
  policy,    \* Lambda: the statements of the function's resource policy
  notif,     \* S3: bucket -> its notification configuration
  current,   \* ensure_s3_trigger: what get_bucket_notification_configuration returned
  truns,     \* history: calls of ensure_s3_trigger so far
  original,  \* history: the notification configurations before the first call
  putLog     \* history: the put_bucket_notification_configuration calls

tvars == <<tpc, tbucket, policy, notif, current, truns, original, putLog>>

VARIABLES
  epc,               \* enable_data_capture: position of main
  eargs,             \* enable_data_capture: the parsed arguments
  current_cfg_name,  \* enable_data_capture: ep["EndpointConfigName"]
  endpointCfg,       \* SageMaker: endpoint -> name of the config it runs
  updating,          \* SageMaker: endpoint -> the config an update in progress installs
  configs,           \* SageMaker: the endpoint configs, name -> data capture settings
  eruns,             \* history: runs of main, each with its arguments and what it found
  ecalls             \* history: the create_endpoint_config and update_endpoint calls

evars == <<epc, eargs, current_cfg_name, endpointCfg, updating, configs, eruns, ecalls>>

VARIABLES
  lpc,        \* ensure_lambda: position of the call
  fn,         \* Lambda: the function's State and LastUpdateStatus, and who updates it
  elapsed,    \* wait_lambda_ready: time.time() - start, in seconds
  attempt,    \* call_with_retry: the loop variable attempt
  lerr,       \* the exception that left ensure_lambda
  lwait,      \* history: how the latest wait_lambda_ready stands or ended
  waitsDone,  \* history: calls of wait_lambda_ready that returned
  lcall,      \* history: the latest call of fn made by call_with_retry, and its answer
  accepted,   \* history: the update operations Lambda accepted, in order
  overlap,    \* history: an update was accepted while an update of this run was in progress
  others      \* history: updates started by another deployment

lvars == <<lpc, fn, elapsed, attempt, lerr, lwait, waitsDone, lcall, accepted, overlap, others>>

VARIABLES
  spc,       \* mm_create_schedule: position of main
  schedule,  \* SageMaker: the state of the monitoring schedule of that name
  selapsed,  \* delete_schedule_if_exists: time.time() - (deadline - timeout), in seconds
  slast,     \* delete_schedule_if_exists: what the latest describe_monitoring_schedule answered
  serr,      \* the exception that left main
  screated   \* history: the create_monitoring_schedule calls

svars == <<spc, schedule, selapsed, slast, serr, screated>>

xvars == <<cvars, tvars, evars, lvars, svars>>

vars == <<rec, result, npc, variant, SNS_TOPIC_ARN, pc, seen, items, rowsPending,
          total_issues, samples, ret, cause, metricCalls, metricFailed, snsCalls,
          snsFailed, printed, violations, validated, captured, dropped,
          dataset, bpc, df, baseline, stored, puts, berr,
          apc, threshold, alarms, alarmState, notified, evals,
          inv, cwSink, snsSink,
          tpc, tbucket, policy, notif, current, truns, original, putLog,
          epc, eargs, current_cfg_name, endpointCfg, updating, configs, eruns, ecalls,
          lpc, fn, elapsed, attempt, lerr, lwait, waitsDone, lcall, accepted, overlap, others,
          spc, schedule, selapsed, slast, serr, screated>>

\* the handler is not running
NoRet == [status |-> "none", issues |-> 0]
HIdle ==
  /\ pc = "idle" /\ seen = 0 /\ items = <<>> /\ rowsPending = <<>>
  /\ total_issues = 0 /\ samples = <<>> /\ ret = NoRet /\ cause = "none"
  /\ metricCalls = <<>> /\ metricFailed = FALSE /\ snsCalls = <<>> /\ snsFailed = FALSE
  /\ printed = <<>> /\ violations = <<>> /\ validated = <<>> /\ captured = 0 /\ dropped = 0

\* baseline_build is not running; the baseline object is the one of an earlier run
Previous == [version |-> "previous"]
BIdle ==
  /\ dataset = <<>> /\ bpc = "idle" /\ df = <<>> /\ baseline = <<>>
  /\ stored = Previous /\ puts = 0 /\ berr = "none"

\* mm_create_drift_alarm is not running and no alarm exists
AIdle ==
  /\ apc = "idle" /\ threshold = 0 /\ alarms = <<>> /\ alarmState = <<>>
  /\ notified = <<>> /\ evals = 0

\* no concurrent invocation is under way
CIdle == inv = <<>> /\ cwSink = <<>> /\ snsSink = <<>>

\* ensure_s3_trigger is not running
TIdle ==
  /\ tpc = "idle" /\ tbucket = <<>> /\ policy = {} /\ notif = <<>> /\ current = <<>>
  /\ truns = 0 /\ original = <<>> /\ putLog = <<>>

\* enable_data_capture is not running
EIdle ==
  /\ epc = "idle" /\ eargs = <<>> /\ current_cfg_name = <<>> /\ endpointCfg = <<>>
  /\ updating = <<>> /\ configs = <<>> /\ eruns = <<>> /\ ecalls = <<>>

\* ensure_lambda is not running
LIdle ==
  /\ lpc = "idle" /\ fn = <<>> /\ elapsed = 0 /\ attempt = 0 /\ lerr = "none"
  /\ lwait = <<>> /\ waitsDone = 0 /\ lcall = <<>> /\ accepted = <<>>
  /\ overlap = FALSE /\ others = 0

\* mm_create_schedule is not running
SIdle ==
  /\ spc = "idle" /\ schedule = "absent" /\ selapsed = 0 /\ slast = "none"
  /\ serr = "none" /\ screated = <<>>

XIdle == CIdle /\ TIdle /\ EIdle /\ LIdle /\ SIdle

-----------------------------------------------------------------------------
(* Tokens and texts *)

Ch(a) == [c |-> a]
Q(t) == [q |-> t]
IsQ(tk) == "q" \in DOMAIN tk
IsC(tk) == "c" \in DOMAIN tk
T(ss) == [i \in DOMAIN ss |-> Ch(ss[i])]
W(a) == <<Ch(a)>>
K(a) == Q(W(a))

SP == " "
NL == "\n"
IsWs(tk) == IsC(tk) /\ tk.c \in {SP, NL}

\* numeric literals of the model and their value in tenths
NumLit == [l \in {"5.1", "3.5", "1.4", "0.2", "9.5", "9.0", "1"} |->
             CASE l = "5.1" -> 51 [] l = "3.5" -> 35 [] l = "1.4" -> 14
               [] l = "0.2" -> 2 [] l = "9.5" -> 95 [] l = "9.0" -> 90 [] l = "1" -> 10]

\* str.lower() / str.upper() on one run of characters
LowerOf(a) ==
  CASE a = "Application/JSON" -> "application/json"
    [] a = "BASE64" -> "base64"
    [] a = "NONE" -> "none"
    [] OTHER -> a
UpperOf(a) ==
  CASE a = "base64" -> "BASE64"
    [] a = "none" -> "NONE"
    [] a = "Application/JSON" -> "APPLICATION/JSON"
    [] a = "application/json" -> "APPLICATION/JSON"
    [] a = "text/csv" -> "TEXT/CSV"
    [] OTHER -> a
Lower(t) == [i \in DOMAIN t |-> IF IsC(t[i]) THEN Ch(LowerOf(t[i].c)) ELSE t[i]]
Upper(t) == [i \in DOMAIN t |-> IF IsC(t[i]) THEN Ch(UpperOf(t[i].c)) ELSE t[i]]

\* "json" in s, "csv" in s: the runs of characters that contain the word
HasSub(t, w) ==
  \E i \in DOMAIN t : IsC(t[i]) /\
     \/ w = "json" /\ t[i].c \in {"json", "application/json", "not json"}
     \/ w = "csv" /\ t[i].c \in {"csv", "text/csv"}

RECURSIVE LStrip(_)
LStrip(t) == IF t # <<>> /\ IsWs(Head(t)) THEN LStrip(Tail(t)) ELSE t
RECURSIVE RStrip(_)
RStrip(t) == IF t # <<>> /\ IsWs(t[Len(t)]) THEN RStrip(SubSeq(t, 1, Len(t) - 1)) ELSE t
\* str.strip()
Strip(t) == RStrip(LStrip(t))

RECURSIVE SplitRec(_, _, _, _, _)
SplitRec(t, i, cur, acc, seps) ==
  IF i > Len(t) THEN Append(acc, cur)
  ELSE IF IsC(t[i]) /\ t[i].c \in seps
       THEN SplitRec(t, i + 1, <<>>, Append(acc, cur), seps)
       ELSE SplitRec(t, i + 1, Append(cur, t[i]), acc, seps)
\* str.split(sep) for a one-character separator out of seps
Split(t, seps) == SplitRec(t, 1, <<>>, <<>>, seps)
\* str.splitlines(): no piece after a final line break, none for ""
SplitLines(t) ==
  LET p == Split(t, {NL})
  IN IF p[Len(p)] = <<>> THEN SubSeq(p, 1, Len(p) - 1) ELSE p

-----------------------------------------------------------------------------
(* Python values *)

Num(n) == [t |-> "num", n |-> n]
NaN == [t |-> "nan"]
None == [t |-> "none"]
BoolV(b) == [t |-> "bool", b |-> b]
StrV(s) == [t |-> "str", s |-> s]
BytesV(s) == [t |-> "bytes", s |-> s]
ListV(xs) == [t |-> "list", items |-> xs]
DictV(d) == [t |-> "dict", d |-> d]
EmptyDict == DictV(<<>>)

\* truth value of a Python object (x or "")
Truthy(x) ==
  CASE x.t = "none" -> FALSE
    [] x.t = "bool" -> x.b
    [] x.t = "num" -> x.n # 0
    [] x.t = "str" -> x.s # <<>>
    [] x.t = "bytes" -> x.s # <<>>
    [] x.t = "list" -> x.items # <<>>
    [] x.t = "dict" -> DOMAIN x.d # {}
    [] OTHER -> TRUE

Ok(v) == [ok |-> TRUE, v |-> v]
Err == [ok |-> FALSE]
\* an exception on its way up the call stack
Exc == [t |-> "exception"]

\* float(x): numbers and booleans convert, a string converts when, stripped,
\* it is one numeric literal (or nan); anything else raises
PyFloat(x) ==
  CASE x.t = "num" -> Ok(x)
    [] x.t = "nan" -> Ok(x)
    [] x.t = "bool" -> Ok(Num(IF x.b THEN 10 ELSE 0))
    [] x.t = "str" ->
         LET s == Strip(x.s)
         IN IF Len(s) = 1 /\ IsC(s[1]) /\ s[1].c \in DOMAIN NumLit
            THEN Ok(Num(NumLit[s[1].c]))
            ELSE IF Len(s) = 1 /\ IsC(s[1]) /\ s[1].c \in {"NaN", "nan"}
                 THEN Ok(NaN)
                 ELSE Err
    [] OTHER -> Err

-----------------------------------------------------------------------------
(* json.loads *)

RECURSIVE SkipWs(_, _)
SkipWs(s, i) == IF i <= Len(s) /\ IsWs(s[i]) THEN SkipWs(s, i + 1) ELSE i

POk(v, n) == [ok |-> TRUE, v |-> v, next |-> n]
PErr == [ok |-> FALSE]
IsCh(s, i, a) == i <= Len(s) /\ IsC(s[i]) /\ s[i].c = a

RECURSIVE ParseValue(_, _)
RECURSIVE ParseElems(_, _, _)
RECURSIVE ParseMembers(_, _, _)

ParseValue(s, i) ==
  LET j == SkipWs(s, i)
  IN IF j > Len(s) THEN PErr
     ELSE IF IsQ(s[j]) THEN POk(StrV(s[j].q), j + 1)
     ELSE IF ~IsC(s[j]) THEN PErr
     ELSE IF s[j].c \in DOMAIN NumLit THEN POk(Num(NumLit[s[j].c]), j + 1)
     ELSE IF s[j].c = "NaN" THEN POk(NaN, j + 1)
     ELSE IF s[j].c = "null" THEN POk(None, j + 1)
     ELSE IF s[j].c = "true" THEN POk(BoolV(TRUE), j + 1)
     ELSE IF s[j].c = "false" THEN POk(BoolV(FALSE), j + 1)
     ELSE IF s[j].c = "["
          THEN IF IsCh(s, SkipWs(s, j + 1), "]")
               THEN POk(ListV(<<>>), SkipWs(s, j + 1) + 1)
               ELSE ParseElems(s, j + 1, <<>>)
     ELSE IF s[j].c = "{"
          THEN IF IsCh(s, SkipWs(s, j + 1), "}")
               THEN POk(EmptyDict, SkipWs(s, j + 1) + 1)
               ELSE ParseMembers(s, j + 1, <<>>)
     ELSE PErr

ParseElems(s, i, acc) ==
  LET r == ParseValue(s, i)
  IN IF ~r.ok THEN PErr
     ELSE LET k == SkipWs(s, r.next)
          IN IF IsCh(s, k, ",") THEN ParseElems(s, k + 1, Append(acc, r.v))
             ELSE IF IsCh(s, k, "]") THEN POk(ListV(Append(acc, r.v)), k + 1)
             ELSE PErr

ParseMembers(s, i, d) ==
  LET j == SkipWs(s, i)
  IN IF j > Len(s) \/ ~IsQ(s[j]) THEN PErr
     ELSE LET c == SkipWs(s, j + 1)
          IN IF ~IsCh(s, c, ":") THEN PErr
             ELSE LET r == ParseValue(s, c + 1)
                  IN IF ~r.ok THEN PErr
                     ELSE LET k == SkipWs(s, r.next)
                              d2 == (s[j].q :> r.v) @@ d
                          IN IF IsCh(s, k, ",") THEN ParseMembers(s, k + 1, d2)
                             ELSE IF IsCh(s, k, "}") THEN POk(DictV(d2), k + 1)
                             ELSE PErr

\* json.loads(x): raises for anything but a str holding exactly one JSON value
json_loads(x) ==
  IF x.t # "str" THEN Err
  ELSE LET r == ParseValue(x.s, 1)
       IN IF r.ok /\ SkipWs(x.s, r.next) > Len(x.s) THEN Ok(r.v) ELSE Err

-----------------------------------------------------------------------------
(* monitoring/record_preprocessor.py *)

FEATURES == <<"sepal_length", "sepal_width", "petal_length", "petal_width">>
WRAPPER_KEYS == <<"instances", "inputs", "features", "data">>

\* a Python object is the function from the names of its attributes to
\* their values; NoAttrs is an object without attributes
NoAttrs == <<>>

RECURSIVE _get_attr(_, _, _)
_get_attr(obj, names, default) ==
  IF names = <<>> THEN default
  ELSE IF Head(names) \in DOMAIN obj /\ obj[Head(names)] # None
       THEN obj[Head(names)]
       ELSE _get_attr(obj, Tail(names), default)

\* a returned row: the dict's items in insertion order
\* the "[] to skip" return instead of a row
_nan_row_skip == <<>>

_nan_row == [i \in 1..Len(FEATURES) |-> [k |-> FEATURES[i], v |-> NaN]]

\* the same asking for more than 4 entries
_as_float4_more_than_four(x) ==
  IF x.t # "list" \/ Len(x.items) <= 4 THEN None
  ELSE IF \A i \in 1..4 : PyFloat(x.items[i]).ok
       THEN ListV([i \in 1..4 |-> PyFloat(x.items[i]).v])
       ELSE None

_as_float4(x) ==
  IF x.t # "list" \/ Len(x.items) < 4 THEN None
  ELSE IF \A i \in 1..4 : PyFloat(x.items[i]).ok
       THEN ListV([i \in 1..4 |-> PyFloat(x.items[i]).v])
       ELSE None

RECURSIVE WrapperLoop(_, _)
WrapperLoop(obj, keys) ==
  IF keys = <<>> THEN None
  ELSE IF W(Head(keys)) \in DOMAIN obj.d
       THEN LET v == obj.d[W(Head(keys))]
            IN IF v.t = "list" /\ v.items # <<>>
               THEN IF v.items[1].t = "list" THEN _as_float4(v.items[1])
                    ELSE _as_float4(v)
               ELSE WrapperLoop(obj, Tail(keys))
       ELSE WrapperLoop(obj, Tail(keys))

_parse_json_any(obj) ==
  IF obj.t = "dict"
  THEN IF \A i \in 1..Len(FEATURES) : W(FEATURES[i]) \in DOMAIN obj.d
       THEN IF \A i \in 1..Len(FEATURES) : PyFloat(obj.d[W(FEATURES[i])]).ok
            THEN ListV([i \in 1..Len(FEATURES) |-> PyFloat(obj.d[W(FEATURES[i])]).v])
            ELSE None
       ELSE WrapperLoop(obj, WRAPPER_KEYS)
  ELSE IF obj.t = "list"
       THEN IF obj.items # <<>> /\ obj.items[1].t = "list"
            THEN _as_float4(obj.items[1])
            ELSE _as_float4(obj)
       ELSE None

NonEmpty(ts) == SelectSeq(ts, LAMBDA t : Strip(t) # <<>>)
StripAll(ts) == [i \in DOMAIN ts |-> Strip(ts[i])]

\* the same reading the first non-empty line instead of the last
_parse_csv_first_line(s0) ==
  LET s == Strip(s0)
      lines == StripAll(NonEmpty(SplitLines(s)))
  IN IF s = <<>> \/ lines = <<>> THEN None
     ELSE LET last == lines[1]
              parts == StripAll(NonEmpty(Split(last, {",", SP, NL})))
          IN IF Len(parts) < 4 THEN None
             ELSE IF \A i \in 1..4 : PyFloat(StrV(parts[i])).ok
                  THEN ListV([i \in 1..4 |-> PyFloat(StrV(parts[i])).v])
                  ELSE None

\* the same without the try/except around the float conversions
_parse_csv_unguarded(s0) ==
  LET s == Strip(s0)
      lines == StripAll(NonEmpty(SplitLines(s)))
  IN IF s = <<>> \/ lines = <<>> THEN None
     ELSE LET last == lines[Len(lines)]
              parts == StripAll(NonEmpty(Split(last, {",", SP, NL})))
          IN IF Len(parts) < 4 THEN None
             ELSE IF \A i \in 1..4 : PyFloat(StrV(parts[i])).ok
                  THEN ListV([i \in 1..4 |-> PyFloat(StrV(parts[i])).v])
                  ELSE Exc

_parse_csv(s0) ==
  LET s == Strip(s0)
      lines == StripAll(NonEmpty(SplitLines(s)))
  IN IF s = <<>> \/ lines = <<>> THEN None
     ELSE LET last == lines[Len(lines)]
              parts == StripAll(NonEmpty(Split(last, {",", SP, NL})))
          IN IF Len(parts) < 4 THEN None
             ELSE IF \A i \in 1..4 : PyFloat(StrV(parts[i])).ok
                  THEN ListV([i \in 1..4 |-> PyFloat(StrV(parts[i])).v])
                  ELSE None

\* bytes.decode("utf-8", errors="ignore"): undecodable bytes are dropped
BadByte == "\\xff"
DecodeUtf8(t) == SelectSeq(t, LAMBDA tk : ~IsC(tk) \/ tk.c # BadByte)

\* base64.b64decode(str): [e |-> t] is the base64 encoding of the text t; of
\* any other character only those of the base64 alphabet count, and their
\* number must be a multiple of 4 (no padding characters in the model)
IsE(tk) == "e" \in DOMAIN tk
B64(t) == <<[e |-> t]>>
AlphaLen(a) ==
  CASE a \in {"5.1", "3.5", "1.4", "0.2", "9.5", "9.0"} -> 2
    [] a = "1" -> 1
    [] a \in {"abc", "def", "not"} -> 3
    [] a \in {"json", "null", "true"} -> 4
    [] a = "instances" -> 9
    [] a = "inputs" -> 6
    [] a = "data" -> 4
    [] a = "features" -> 8
    [] a = "sepal_length" -> 11
    [] a = "sepal_width" -> 10
    [] a = "petal_length" -> 11
    [] a = "petal_width" -> 10
    [] OTHER -> 0
RECURSIVE AlphaCount(_)
AlphaCount(t) ==
  IF t = <<>> THEN 0
  ELSE (IF IsE(Head(t)) THEN 0
        ELSE IF IsQ(Head(t)) THEN AlphaCount(Head(t).q)
        ELSE AlphaLen(Head(t).c)) + AlphaCount(Tail(t))
Garbage == Ch("\\x9d")
RECURSIVE B64Units(_)
B64Units(t) ==
  IF t = <<>> THEN <<>>
  ELSE IF IsE(Head(t)) THEN Head(t).e \o B64Units(Tail(t)) ELSE B64Units(Tail(t))
\* base64.b64decode(str, validate=True): any character outside the alphabet
\* is an error
b64decode_strict(t) ==
  IF \E i \in DOMAIN t : ~IsE(t[i]) THEN Err ELSE Ok(B64Units(t))

b64decode(t) ==
  IF AlphaCount(t) % 4 # 0 THEN Err
  ELSE Ok(B64Units(t) \o (IF AlphaCount(t) > 0 THEN <<Garbage>> ELSE <<>>))

\* obj = json.loads(data) if isinstance(data, str) else data; except: obj = data
LoadObj(data) == IF json_loads(data).ok THEN json_loads(data).v ELSE data

\* a JSON content type that falls back to the CSV rule
ParseValues_fallthrough(content_type, data) ==
  IF HasSub(content_type, "json") /\ _parse_json_any(LoadObj(data)) # None
  THEN _parse_json_any(LoadObj(data))
  ELSE IF data.t = "str" THEN _parse_csv(data.s)
  ELSE None

\* values = None; if "json" in content_type: ... else: ...
ParseValues(content_type, data) ==
  IF HasSub(content_type, "json") THEN _parse_json_any(LoadObj(data))
  ELSE IF data.t = "str" THEN _parse_csv(data.s)
  ELSE None

Returned(row, via) == [raised |-> FALSE, row |-> row, via |-> via]
Raised == [raised |-> TRUE]

\* .lower() / .upper() of (tag or ""): AttributeError unless it is a str
TagText(v) == IF Truthy(v) THEN v ELSE StrV(<<>>)

preprocess_handler(inference_record) ==
  IF "endpoint_input" \notin DOMAIN inference_record
  THEN Returned(_nan_row, "no_endpoint_input")
  ELSE
  LET ep_in == inference_record["endpoint_input"]
      data0 == _get_attr(ep_in, <<"data">>, None)
      ct == TagText(_get_attr(ep_in,
               <<"content_type", "observed_content_type", "observedContentType">>,
               StrV(<<>>)))
      en == TagText(_get_attr(ep_in, <<"encoding">>, StrV(<<>>)))
  IN IF data0 = None THEN Returned(_nan_row, "no_data")
     ELSE IF ct.t # "str" \/ en.t # "str" THEN Raised
     ELSE
     LET content_type == Lower(ct.s)
         encoding == Upper(en.s)
         data1 == IF data0.t = "bytes" THEN StrV(DecodeUtf8(data0.s)) ELSE data0
         isB64 == encoding = W("BASE64") /\ data1.t = "str"
         dec == IF isB64 THEN b64decode(data1.s) ELSE Err
     IN IF isB64 /\ ~dec.ok THEN Returned(_nan_row, "base64_failed")
        ELSE
        LET data == IF isB64 THEN StrV(DecodeUtf8(dec.v)) ELSE data1
            values == ParseValues(content_type, data)
        IN IF values = Exc THEN Raised
           ELSE IF values = None THEN Returned(_nan_row, "unparseable")
           ELSE Returned([i \in 1..4 |-> [k |-> FEATURES[i], v |-> values.items[i]]],
                         "parsed")

-----------------------------------------------------------------------------
(* Inference records handed to preprocess_handler *)

V4 == <<"5.1", "3.5", "1.4", "0.2">>
Commas(ss) == [i \in 1..(2 * Len(ss) - 1) |-> IF i % 2 = 1 THEN Ch(ss[(i + 1) \div 2]) ELSE Ch(",")]
Brack(t) == <<Ch("[")>> \o t \o <<Ch("]")>>
Brace(t) == <<Ch("{")>> \o t \o <<Ch("}")>>
Member(k, t) == <<K(k), Ch(":"), Ch(SP)>> \o t

CsvLine == Commas(V4)                                  \* 5.1,3.5,1.4,0.2
CsvSpaces == T(<<"5.1", SP, "3.5", SP, SP, "1.4", SP, "0.2">>)
CsvHeader == T(<<"abc", ",", "def", NL>>) \o CsvLine \o T(<<NL, SP, NL>>)
CsvBad == T(<<"abc", ",", "def">>)                     \* abc,def
CsvShort == Commas(<<"5.1", "3.5", "1.4">>)
CsvWords == T(<<"abc", ",", "def", ",", "abc", ",", "def">>)
CsvNan == Commas(<<"nan", "nan", "nan", "nan">>)
\* a numeric line followed by a last line that is not numeric
CsvLateBad == CsvLine \o T(<<NL, "abc", ",", "def">>)
\* two numeric lines
CsvTwoRows == Commas(<<"9.5", "9.5", "9.5", "9.5">>) \o <<Ch(NL)>> \o CsvLine
\* a fifth token that is not numeric
CsvFive == Commas(<<"5.1", "3.5", "1.4", "0.2", "abc">>)
\* commas and blanks mixed, the line indented
CsvMixed == T(<<SP, "5.1", ",", SP, "3.5", SP, "1.4", ",", "0.2", NL>>)
JsonBad == T(<<"{", "not", SP, "json">>)               \* {not json
JsonInstances2 == Brace(Member("instances", Brack(Brack(CsvLine))))
JsonInstances1 == Brace(Member("instances", Brack(CsvLine)))
JsonInputs == Brace(Member("inputs", Brack(Commas(<<"9.5", "3.5", "1.4", "0.2">>))))
JsonBare == Brack(CsvLine)
JsonBare2 == Brack(Brack(CsvLine) \o <<Ch(",")>> \o Brack(Commas(<<"9.5", "9.5", "9.5", "9.5">>)))
JsonFeatures ==
  Brace(Member("sepal_length", W("5.1")) \o <<Ch(",")>> \o Member("sepal_width", W("3.5"))
        \o <<Ch(",")>> \o Member("petal_length", W("1.4")) \o <<Ch(",")>>
        \o Member("petal_width", <<Q(W("0.2"))>>))
\* all feature names, one value not numeric, and a usable wrapper key
JsonFeaturesBad ==
  Brace(Member("sepal_length", <<K("abc")>>) \o <<Ch(",")>> \o Member("sepal_width", W("3.5"))
        \o <<Ch(",")>> \o Member("petal_length", W("1.4")) \o <<Ch(",")>>
        \o Member("petal_width", W("0.2")) \o <<Ch(",")>> \o Member("instances", Brack(CsvLine)))
\* wrapper keys: the first is present with a short list, the second is usable
JsonShortThenGood ==
  Brace(Member("instances", Brack(Commas(<<"5.1", "3.5">>))) \o <<Ch(",")>>
        \o Member("inputs", Brack(CsvLine)))
\* wrapper keys: the first is present with an empty list, a later one is usable
JsonEmptyThenGood ==
  Brace(Member("instances", Brack(<<>>)) \o <<Ch(",")>> \o Member("data", Brack(Brack(CsvLine))))
JsonTwoWrappers ==
  Brace(Member("data", Brack(Commas(<<"9.5", "9.5", "9.5", "9.5">>))) \o <<Ch(",")>>
        \o Member("features", Brack(CsvLine)))
JsonScalar == W("5.1")
JsonOther == Brace(Member("abc", W("1")))

\* the base64 text of 5.1,3.5,1.4,0.2 with a character outside the alphabet
B64Stray == B64(CsvLine) \o <<Ch("!")>>

Payloads ==
  {StrV(t) : t \in {CsvLine, CsvSpaces, CsvHeader, CsvBad, CsvShort, CsvWords, CsvNan, JsonBad,
                    CsvLateBad, CsvTwoRows, CsvFive, CsvMixed,
                    JsonInstances2, JsonInstances1, JsonInputs, JsonBare, JsonBare2,
                    JsonFeatures, JsonFeaturesBad, JsonShortThenGood, JsonEmptyThenGood,
                    JsonTwoWrappers, JsonScalar, JsonOther, <<>>,
                    B64(CsvLine), B64(JsonInstances2), B64(JsonBad), B64Stray}}
  \cup {BytesV(<<Ch(BadByte)>> \o CsvLine), BytesV(JsonInstances2),
        ListV([i \in 1..4 |-> Num(NumLit[V4[i]])]),
        DictV(W("instances") :> ListV(<<ListV([i \in 1..4 |-> Num(NumLit[V4[i]])])>>)),
        Num(51), None}

ContentTypes ==
  {<<>>,
   "content_type" :> StrV(W("application/json")),
   "observed_content_type" :> StrV(W("text/csv")),
   "observedContentType" :> StrV(W("Application/JSON")),
   ("content_type" :> None) @@ ("observedContentType" :> StrV(W("text/csv"))),
   "content_type" :> StrV(W("text/plain")),
   "content_type" :> StrV(<<>>)}

Encodings ==
  {<<>>, "encoding" :> StrV(W("BASE64")), "encoding" :> StrV(W("base64")),
   "encoding" :> StrV(W("NONE")), "encoding" :> None}

\* the vectors encoded both ways, and the two encodings of a vector
VectorLits == {"5.1", "1", "9.5"}
Vectors == {<<a, b, c, d>> : a \in VectorLits, b \in VectorLits, c \in {"1.4", "1"}, d \in {"0.2", "9.5"}}
JsonOf(v) == Brace(Member("instances", Brack(Brack(Commas(v)))))
CsvOf(v) == Commas(v)
JsonRecord(v) ==
  "endpoint_input" :> (("data" :> StrV(JsonOf(v))) @@ ("content_type" :> StrV(W("application/json"))))
CsvRecord(v) ==
  "endpoint_input" :> (("data" :> StrV(CsvOf(v))) @@ ("content_type" :> StrV(W("text/csv"))))

Records ==
  {NoAttrs, "endpoint_input" :> NoAttrs}
  \cup {JsonRecord(v) : v \in Vectors} \cup {CsvRecord(v) : v \in Vectors}
  \cup {"endpoint_input" :> (IF d = None THEN c @@ e ELSE ("data" :> d) @@ c @@ e) :
          d \in Payloads, c \in ContentTypes, e \in Encodings}

NoResult == [raised |-> FALSE, row |-> <<>>, via |-> "not_called"]

NInit == /\ rec \in Records
         /\ result = NoResult
         /\ npc = "ready"
         /\ variant = "drift_lambda" /\ SNS_TOPIC_ARN = "" /\ HIdle
         /\ BIdle /\ AIdle /\ XIdle

Preprocess == /\ npc = "ready"
              /\ result' = preprocess_handler(rec)
              /\ npc' = "done"
              /\ UNCHANGED <<rec, hvars, bvars, avars, xvars>>

NNext == Preprocess
SpecN == NInit /\ [][NNext]_vars

-----------------------------------------------------------------------------
(* lambda_function.py as embedded in monitoring/drift_lambda.py and in       *)
(* monitoring/deploy_monitoring.py                                           *)

\* FEATURE_RANGES, in tenths, in the dict's order
FEATURE_RANGES ==
  <<[k |-> "sepal_length", lo |-> 30, hi |-> 90],
    [k |-> "sepal_width", lo |-> 10, hi |-> 50],
    [k |-> "petal_length", lo |-> 10, hi |-> 70],
    [k |-> "petal_width", lo |-> 0, hi |-> 30]>>

\* how many samples the handler keeps
SAMPLE_CAP == 5

\* str(x) and repr(x)
NumText(n) == IF \E l \in DOMAIN NumLit : NumLit[l] = n
              THEN Ch(CHOOSE l \in DOMAIN NumLit : NumLit[l] = n)
              ELSE Ch("<number>")
RECURSIVE PyRepr(_)
RECURSIVE ReprItems(_)
ReprItems(xs) ==
  IF xs = <<>> THEN <<>>
  ELSE PyRepr(Head(xs)) \o (IF Tail(xs) = <<>> THEN <<>> ELSE <<Ch(","), Ch(SP)>>)
       \o ReprItems(Tail(xs))
PyRepr(x) ==
  CASE x.t = "num" -> <<NumText(x.n)>>
    [] x.t = "nan" -> W("nan")
    [] x.t = "none" -> W("None")
    [] x.t = "bool" -> IF x.b THEN W("True") ELSE W("False")
    [] x.t = "str" -> <<Ch("'")>> \o x.s \o <<Ch("'")>>
    [] x.t = "list" -> Brack(ReprItems(x.items))
    [] OTHER -> W("<object>")
PyStr(x) == IF x.t = "str" THEN x.s ELSE PyRepr(x)

\* d.get(key, default): AttributeError unless d is a dict
HasGet(d) == d.t = "dict"
DictGet(d, key, default) == IF W(key) \in DOMAIN d.d THEN d.d[W(key)] ELSE default

\* _parse_jsonl: the items the generator yields, in order
RECURSIVE ParseLines(_)
ParseLines(ls) ==
  IF ls = <<>> THEN <<>>
  ELSE LET line == Strip(Head(ls))
       IN IF line = <<>> THEN ParseLines(Tail(ls))
          ELSE IF json_loads(StrV(line)).ok
               THEN <<json_loads(StrV(line)).v>> \o ParseLines(Tail(ls))
               ELSE ParseLines(Tail(ls))
_parse_jsonl(body) == ParseLines(SplitLines(body))

\* the rows of a CSV payload: the first 4 comma-separated parts of each line
\* that has at least 4
RECURSIVE CsvRows(_)
CsvRows(ls) ==
  IF ls = <<>> THEN <<>>
  ELSE LET parts == StripAll(Split(Head(ls), {","}))
       IN (IF Len(parts) >= 4
           THEN <<ListV([i \in 1..4 |-> StrV(parts[i])])>> ELSE <<>>)
          \o CsvRows(Tail(ls))

JsonRows(data) ==
  LET payload == json_loads(data).v
  IN IF payload.t = "dict" /\ W("instances") \in DOMAIN payload.d
     THEN payload.d[W("instances")] ELSE payload

Extracted(rows) == [raised |-> FALSE, rows |-> rows]
ExtractRaised == [raised |-> TRUE]

\* drift_lambda.py: returns the rows object, or None
_extract_features(record) ==
  IF ~HasGet(record) THEN Extracted(None)
  ELSE LET cap == DictGet(record, "captureData", EmptyDict)
       IN IF ~HasGet(cap) THEN Extracted(None)
          ELSE LET endpoint_input == DictGet(cap, "endpointInput", EmptyDict)
               IN IF ~HasGet(endpoint_input) THEN Extracted(None)
                  ELSE
  LET data == DictGet(endpoint_input, "data", StrV(<<>>))
      observed == TagText(DictGet(endpoint_input, "observedContentType", StrV(<<>>)))
  IN IF observed.t # "str" THEN ExtractRaised
     ELSE IF HasSub(Lower(observed.s), "json")
          THEN IF json_loads(data).ok THEN Extracted(JsonRows(data)) ELSE Extracted(None)
     ELSE IF HasSub(Lower(observed.s), "csv")
          THEN Extracted(ListV(CsvRows(NonEmpty(SplitLines(PyStr(data))))))
     ELSE Extracted(None)

\* deploy_monitoring.py: returns the list of rows
_extract_rows(item) ==
  IF ~HasGet(item) THEN ExtractRaised
  ELSE LET cap == DictGet(item, "captureData", EmptyDict)
       IN IF ~HasGet(cap) THEN ExtractRaised
          ELSE LET inp == DictGet(cap, "endpointInput", EmptyDict)
               IN IF ~HasGet(inp) THEN ExtractRaised
                  ELSE
  LET data == DictGet(inp, "data", StrV(<<>>))
      ctype == TagText(DictGet(inp, "observedContentType", None))
  IN IF ctype.t # "str" THEN ExtractRaised
     ELSE IF HasSub(Lower(ctype.s), "json")
          THEN IF json_loads(data).ok
               THEN Extracted(IF JsonRows(data).t = "list" THEN JsonRows(data)
                              ELSE ListV(<<JsonRows(data)>>))
               ELSE Extracted(ListV(<<>>))
     ELSE IF HasSub(Lower(ctype.s), "csv")
          THEN Extracted(ListV(CsvRows(SplitLines(PyStr(data)))))
     ELSE Extracted(ListV(<<>>))

\* the handler's loop over an item: the rows it validates (<<>> for `continue`)
RowsIter(v, item) ==
  IF v = "drift_lambda"
  THEN LET rows == _extract_features(item).rows
       IN IF rows = None THEN <<>>
          ELSE IF rows.t = "list" THEN rows.items ELSE <<rows>>
  ELSE _extract_rows(item).rows.items
ExtractRaises(v, item) ==
  IF v = "drift_lambda" THEN _extract_features(item).raised
  ELSE _extract_rows(item).raised

Missing(k) == [kind |-> "missing", k |-> k]
OutOfRange(k, v) == [kind |-> "out_of_range", k |-> k, v |-> v]
NotNumeric(k) == [kind |-> "not_numeric", k |-> k]
InvalidRowFormat == [kind |-> "invalid_row_format"]

\* v < lo or v > hi; every comparison with nan is false
OutOf(v, r) == v.t = "num" /\ (v.n < r.lo \/ v.n > r.hi)

RECURSIVE DictIssues(_, _)
DictIssues(row, rs) ==
  IF rs = <<>> THEN <<>>
  ELSE LET r == Head(rs)
       IN (IF W(r.k) \notin DOMAIN row.d THEN <<Missing(r.k)>>
           ELSE IF ~PyFloat(row.d[W(r.k)]).ok THEN <<NotNumeric(r.k)>>
           ELSE IF OutOf(PyFloat(row.d[W(r.k)]).v, r)
                THEN <<OutOfRange(r.k, PyFloat(row.d[W(r.k)]).v)>>
                ELSE <<>>)
          \o DictIssues(row, Tail(rs))

RECURSIVE ListIssues(_, _)
ListIssues(row, i) ==
  IF i > Len(FEATURES) THEN <<>>
  ELSE LET r == CHOOSE x \in {FEATURE_RANGES[j] : j \in 1..Len(FEATURE_RANGES)} : x.k = FEATURES[i]
       IN (IF ~PyFloat(row.items[i]).ok THEN <<NotNumeric(r.k)>>
           ELSE IF OutOf(PyFloat(row.items[i]).v, r)
                THEN <<OutOfRange(r.k, PyFloat(row.items[i]).v)>>
                ELSE <<>>)
          \o ListIssues(row, i + 1)

_validate_row(row) ==
  IF row.t = "dict" THEN DictIssues(row, FEATURE_RANGES)
  ELSE IF row.t = "list" /\ Len(row.items) >= 4 THEN ListIssues(row, 1)
  ELSE <<InvalidRowFormat>>

-----------------------------------------------------------------------------
(* Data-capture objects handed to the handler *)

\* one captured record: {"captureData": {"endpointInput": {"data": .., "observedContentType": ..}}}
Capture(dataTok, ctTok) ==
  Brace(Member("captureData",
     Brace(Member("endpointInput",
        Brace(Member("data", dataTok) \o <<Ch(",")>>
              \o Member("observedContentType", ctTok))))))
JSON_CT == <<K("application/json")>>
CSV_CT == <<K("text/csv")>>

RowHigh == Commas(<<"9.5", "3.5", "1.4", "0.2">>)     \* sepal_length out of range
RowWild == Commas(<<"9.5", "9.5", "9.5", "9.5">>)     \* all four out of range
RowEdge == Commas(<<"9.0", "3.5", "1.4", "0.2">>)     \* sepal_length on the upper bound

LineOkJson == Capture(<<Q(JsonInstances2)>>, JSON_CT)
LineHighJson == Capture(<<Q(Brace(Member("instances", Brack(Brack(RowHigh)))))>>, JSON_CT)
LineTwoRows ==
  Capture(<<Q(Brace(Member("instances",
              Brack(Brack(RowWild) \o <<Ch(",")>> \o Brack(RowHigh)))))>>, JSON_CT)
LineEdgeJson == Capture(<<Q(Brace(Member("instances", Brack(Brack(RowEdge)))))>>, JSON_CT)
LineEdgeCsv == Capture(<<Q(RowEdge)>>, CSV_CT)
LineHighCsv == Capture(<<Q(RowHigh)>>, CSV_CT)
LineNoRows == Capture(<<Q(Brace(Member("instances", Brack(<<>>))))>>, JSON_CT)
LineOkCsv == Capture(<<Q(CsvLine)>>, CSV_CT)
LineShortCsv == Capture(<<Q(CsvBad)>>, CSV_CT)
LineWordsCsv == Capture(<<Q(CsvWords)>>, CSV_CT)
LineBadPayload == Capture(<<Q(JsonBad)>>, JSON_CT)
LineOtherType == Capture(<<Q(CsvLine)>>, <<K("text/plain")>>)
LineDictOk == Capture(<<Q(JsonFeatures)>>, JSON_CT)
LineDictMissing == Capture(<<Q(JsonOther)>>, JSON_CT)
LineScalar == Capture(<<Q(W("5.1"))>>, JSON_CT)
LineNull == Capture(<<Q(W("null"))>>, JSON_CT)
LineNumData == Capture(W("5.1"), JSON_CT)
LineMalformed == JsonBad                               \* not a JSON document
LineNotObject == Brack(CsvLine)                        \* a JSON list, not an object
LineCapList == Brace(Member("captureData", Brack(<<>>)))
LineNumType == Capture(<<Q(JsonInstances2)>>, W("5.1"))  \* observedContentType is a number

Lines(ls) ==
  LET RECURSIVE J(_)
      J(xs) == IF xs = <<>> THEN <<>>
               ELSE Head(xs) \o (IF Tail(xs) = <<>> THEN <<>> ELSE <<Ch(NL)>>) \o J(Tail(xs))
  IN J(ls)

Bodies ==
  {<<>>,
   Lines(<<LineOkJson, <<Ch(SP)>>, LineOkCsv, LineDictOk>>) \o <<Ch(NL)>>,
   Lines(<<LineHighJson, LineWordsCsv>>),
   Lines(<<LineTwoRows, LineHighJson, LineScalar, LineTwoRows>>),
   Lines(<<LineDictMissing, LineOkJson>>),
   Lines(<<LineMalformed, LineOkJson>>),
   Lines(<<LineMalformed>>),
   Lines(<<LineBadPayload, LineShortCsv>>),
   Lines(<<LineOtherType, LineNoRows, LineNumData>>),
   Lines(<<LineNull>>),
   Lines(<<LineNotObject, LineHighJson>>),
   Lines(<<LineCapList>>),
   Lines(<<LineNumType, LineHighJson>>),
   Lines(<<LineEdgeJson, LineEdgeCsv>>),
   Lines(<<LineHighJson, LineHighCsv>>)}

\* len(event["Records"]) is at most MaxRecords
MaxRecords == 2

RecordCount(body) == Len(NonEmpty(SplitLines(body)))

HInit ==
  /\ variant \in {"drift_lambda", "deploy_monitoring"}
  /\ SNS_TOPIC_ARN \in {"", "arn:aws:sns:topic"}
  /\ HIdle
  /\ rec = NoAttrs /\ result = NoResult /\ npc = "idle"
  /\ BIdle /\ AIdle /\ XIdle

\* where the nested loops stand once the current step is done
LoopPc(its, rows) ==
  IF rows # <<>> THEN "rows" ELSE IF its # <<>> THEN "items" ELSE "records"

\* handler(event, context) is called
Invoke ==
  /\ pc = "idle"
  /\ pc' = "records"
  /\ UNCHANGED <<nvars, bvars, avars, xvars, validated, variant, SNS_TOPIC_ARN, seen, items, rowsPending, total_issues,
                 samples, ret, cause, metricCalls, metricFailed, snsCalls, snsFailed,
                 printed, violations, captured, dropped>>

\* an event record without s3.bucket.name / s3.object.key: continue
SkipRecord ==
  /\ pc = "records" /\ seen < MaxRecords
  /\ seen' = seen + 1
  /\ UNCHANGED <<nvars, bvars, avars, xvars, validated, variant, SNS_TOPIC_ARN, pc, items, rowsPending, total_issues,
                 samples, ret, cause, metricCalls, metricFailed, snsCalls, snsFailed,
                 printed, violations, captured, dropped>>

\* an object whose key does not end with .jsonl: continue
SkipKey ==
  /\ pc = "records" /\ seen < MaxRecords
  /\ \E body \in Bodies :
       /\ captured' = captured + RecordCount(body)
       /\ dropped' = dropped + RecordCount(body)
  /\ seen' = seen + 1
  /\ UNCHANGED <<nvars, bvars, avars, xvars, validated, variant, SNS_TOPIC_ARN, pc, items, rowsPending, total_issues,
                 samples, ret, cause, metricCalls, metricFailed, snsCalls, snsFailed,
                 printed, violations>>

\* s3.get_object and the read of the body; _parse_jsonl starts
GetObject ==
  /\ pc = "records" /\ seen < MaxRecords
  /\ \E body \in Bodies :
       /\ items' = _parse_jsonl(body)
       /\ captured' = captured + RecordCount(body)
       /\ dropped' = dropped + (RecordCount(body) - Len(_parse_jsonl(body)))
       /\ pc' = LoopPc(_parse_jsonl(body), <<>>)
  /\ seen' = seen + 1
  /\ UNCHANGED <<nvars, bvars, avars, xvars, validated, variant, SNS_TOPIC_ARN, rowsPending, total_issues,
                 samples, ret, cause, metricCalls, metricFailed, snsCalls, snsFailed,
                 printed, violations>>

\* s3.get_object raises (no such key, access denied)
GetObjectFails ==
  /\ pc = "records" /\ seen < MaxRecords
  /\ pc' = "raised" /\ cause' = "s3"
  /\ seen' = seen + 1
  /\ UNCHANGED <<nvars, bvars, avars, xvars, validated, variant, SNS_TOPIC_ARN, items, rowsPending, total_issues,
                 samples, ret, metricCalls, metricFailed, snsCalls, snsFailed,
                 printed, violations, captured, dropped>>

\* the next item of _parse_jsonl: its rows are extracted
NextItem ==
  /\ pc = "items" /\ items # <<>>
  /\ IF ExtractRaises(variant, Head(items))
     THEN /\ pc' = "raised" /\ cause' = "record"
          /\ UNCHANGED <<items, rowsPending, dropped>>
     ELSE /\ rowsPending' = RowsIter(variant, Head(items))
          /\ items' = Tail(items)
          /\ dropped' = dropped + (IF RowsIter(variant, Head(items)) = <<>> THEN 1 ELSE 0)
          /\ pc' = LoopPc(Tail(items), RowsIter(variant, Head(items)))
          /\ UNCHANGED cause
  /\ UNCHANGED <<nvars, bvars, avars, xvars, validated, variant, SNS_TOPIC_ARN, seen, total_issues,
                 samples, ret, metricCalls, metricFailed, snsCalls, snsFailed,
                 printed, violations, captured>>

Sample(row, issues) == [row |-> row, issues |-> issues]

\* the append without the test of len(samples)
KeepSample_uncapped(smp, x) == Append(smp, x)

\* if len(samples) < 5: samples.append(...)
KeepSample(smp, x) == IF Len(smp) < SAMPLE_CAP THEN Append(smp, x) ELSE smp

\* one turn of `for row in rows_iter`
ValidateRow ==
  /\ pc = "rows" /\ rowsPending # <<>>
  /\ LET row == Head(rowsPending)
         issues == _validate_row(row)
     IN IF issues # <<>>
        THEN /\ total_issues' = total_issues + 1
             /\ samples' = KeepSample(samples, Sample(row, issues))
             /\ violations' = Append(violations, Sample(row, issues))
        ELSE UNCHANGED <<total_issues, samples, violations>>
  /\ validated' = Append(validated, Head(rowsPending))
  /\ rowsPending' = Tail(rowsPending)
  /\ pc' = LoopPc(items, Tail(rowsPending))
  /\ UNCHANGED <<nvars, bvars, avars, xvars, variant, SNS_TOPIC_ARN, seen, items, ret, cause, metricCalls,
                 metricFailed, snsCalls, snsFailed, printed, captured, dropped>>

\* _publish_metric without its try/except: the sink's exception propagates
PublishMetric_unguarded ==
  /\ pc = "records"
  /\ metricCalls' = Append(metricCalls, total_issues)
  /\ \E ok \in BOOLEAN :
       /\ metricFailed' = ~ok
       /\ pc' = IF ok THEN "metric_done" ELSE "raised"
       /\ cause' = IF ok THEN cause ELSE "cloudwatch"
  /\ UNCHANGED <<nvars, bvars, avars, xvars, validated, variant, SNS_TOPIC_ARN, seen, items, rowsPending, total_issues,
                 samples, ret, snsCalls, snsFailed, printed, violations, captured, dropped>>

\* _publish_metric called only when there is something to count
PublishMetric_nonzero ==
  /\ pc = "records"
  /\ IF total_issues > 0
     THEN /\ metricCalls' = Append(metricCalls, total_issues)
          /\ \E ok \in BOOLEAN :
               /\ metricFailed' = ~ok
               /\ printed' = IF ok THEN printed ELSE Append(printed, "Failed to publish metric")
     ELSE UNCHANGED <<metricCalls, metricFailed, printed>>
  /\ pc' = "metric_done"
  /\ UNCHANGED <<nvars, bvars, avars, xvars, validated, variant, SNS_TOPIC_ARN, seen, items, rowsPending, total_issues,
                 samples, ret, cause, snsCalls, snsFailed, violations, captured, dropped>>

\* event["Records"] is exhausted: _publish_metric(total_issues)
PublishMetric ==
  /\ pc = "records"
  /\ metricCalls' = Append(metricCalls, total_issues)
  /\ \E ok \in BOOLEAN :
       /\ metricFailed' = ~ok
       /\ printed' = IF ok THEN printed ELSE Append(printed, "Failed to publish metric")
  /\ pc' = "metric_done"
  /\ UNCHANGED <<nvars, bvars, avars, xvars, validated, variant, SNS_TOPIC_ARN, seen, items, rowsPending, total_issues,
                 samples, ret, cause, snsCalls, snsFailed, violations, captured, dropped>>

AlertMessage == [issue_count |-> total_issues, samples |-> samples]

\* _alert without the test of SNS_TOPIC_ARN
Alert_unconditional ==
  /\ pc = "metric_done" /\ total_issues > 0
  /\ snsCalls' = Append(snsCalls, AlertMessage)
  /\ \E ok \in BOOLEAN :
       /\ snsFailed' = ~ok
       /\ ret' = IF ok THEN [status |-> "alerted", issues |-> total_issues] ELSE ret
       /\ pc' = IF ok THEN "returned" ELSE "raised"
       /\ cause' = IF ok THEN cause ELSE "sns"
  /\ UNCHANGED <<nvars, bvars, avars, xvars, validated, variant, SNS_TOPIC_ARN, seen, items, rowsPending, total_issues,
                 samples, metricCalls, metricFailed, printed, violations, captured, dropped>>

\* if total_issues > 0: _alert(...) and return "alerted"
Alert ==
  /\ pc = "metric_done" /\ total_issues > 0
  /\ IF SNS_TOPIC_ARN = ""
     THEN /\ printed' = Append(printed, "SNS_TOPIC_ARN not set; skipping alert")
          /\ ret' = [status |-> "alerted", issues |-> total_issues]
          /\ pc' = "returned"
          /\ UNCHANGED <<snsCalls, snsFailed, cause>>
     ELSE /\ snsCalls' = Append(snsCalls, AlertMessage)
          /\ \E ok \in BOOLEAN :
               /\ snsFailed' = ~ok
               /\ ret' = IF ok THEN [status |-> "alerted", issues |-> total_issues] ELSE ret
               /\ pc' = IF ok THEN "returned" ELSE "raised"
               /\ cause' = IF ok THEN cause ELSE "sns"
          /\ UNCHANGED printed
  /\ UNCHANGED <<nvars, bvars, avars, xvars, validated, variant, SNS_TOPIC_ARN, seen, items, rowsPending, total_issues,
                 samples, metricCalls, metricFailed, violations, captured, dropped>>

\* otherwise return "ok"
ReturnOk ==
  /\ pc = "metric_done" /\ total_issues = 0
  /\ ret' = [status |-> "ok", issues |-> 0]
  /\ pc' = "returned"
  /\ UNCHANGED <<nvars, bvars, avars, xvars, validated, variant, SNS_TOPIC_ARN, seen, items, rowsPending, total_issues,
                 samples, cause, metricCalls, metricFailed, snsCalls, snsFailed,
                 printed, violations, captured, dropped>>

Next ==
  \/ Invoke \/ SkipRecord \/ SkipKey \/ GetObject \/ GetObjectFails
  \/ NextItem \/ ValidateRow \/ PublishMetric \/ Alert \/ ReturnOk

Spec == HInit /\ [][Next]_vars

-----------------------------------------------------------------------------
(* Properties of the handler, under Spec *)

Min(a, b) == IF a < b THEN a ELSE b
RECURSIVE SumLen(_)
SumLen(vs) == IF vs = <<>> THEN 0 ELSE Len(Head(vs).issues) + SumLen(Tail(vs))
\* rows the handler could not read as a feature row
InvalidRows == SelectSeq(violations, LAMBDA x : x.issues = <<InvalidRowFormat>>)
\* per-feature findings (missing, not numeric, out of range) in the rows read
FeatureFindings == SumLen(SelectSeq(violations, LAMBDA x : x.issues # <<InvalidRowFormat>>))

\* C1: once the handler has returned, every captured record of the event's
\* objects either had a row validated or is part of the issue count; a record
\* of which no row was validated and that was not counted does not exist.
C1_NoRecordDroppedUncounted ==
  pc = "returned" => total_issues >= Len(violations) + dropped

\* C2: the handler never raises because of what a captured record contains.
C2_RecordNeverAborts == cause # "record"

\* C3: the returned issue count is the number of unparseable records plus
\* the number of per-feature findings.
C3_IssueCountIsSum ==
  pc = "returned" => ret.issues = (dropped + Len(InvalidRows)) + FeatureFindings

\* C4 as stated: a returned handler has status "alerted" with the alert
\* handed to SNS exactly when issue_count > 0, and "ok" with issues 0 and no
\* alert when issue_count = 0.
C4_AlertIffIssues ==
  pc = "returned" =>
     /\ (ret.status = "alerted" /\ Len(snsCalls) = 1) <=> (total_issues > 0)
     /\ total_issues = 0 => ret = [status |-> "ok", issues |-> 0] /\ snsCalls = <<>>

\* C4 as amended: a returned handler has status "alerted" exactly when
\* issue_count > 0; the alert (issue count and samples) is handed to SNS
\* exactly when moreover SNS_TOPIC_ARN is set, otherwise the skip is printed;
\* with issue_count = 0 it returns "ok", issues 0, and nothing is published.
C4_AlertIffIssuesAndTopic ==
  /\ snsCalls # <<>> => total_issues > 0 /\ SNS_TOPIC_ARN # ""
  /\ pc = "returned" =>
       /\ ret.status = (IF total_issues > 0 THEN "alerted" ELSE "ok")
       /\ ret.issues = total_issues
       /\ snsCalls = (IF total_issues > 0 /\ SNS_TOPIC_ARN # ""
                      THEN <<[issue_count |-> total_issues, samples |-> samples]>>
                      ELSE <<>>)
       /\ (total_issues > 0 /\ SNS_TOPIC_ARN = "")
            => printed # <<>> /\ printed[Len(printed)] = "SNS_TOPIC_ARN not set; skipping alert"
C4_Witness ==
  pc = "returned" /\ total_issues > 0 /\ SNS_TOPIC_ARN = "" /\ ret.status = "alerted"

\* C5: at every point the samples are the first min(n, 5) of the n rows found
\* with issues so far, in the order found.
C5_SamplesAreFirstViolations ==
  samples = SubSeq(violations, 1, Min(Len(violations), SAMPLE_CAP))
C5_Witness ==
  Len(violations) >= SAMPLE_CAP + 2 /\ Len(samples) = SAMPLE_CAP /\ pc = "rows"

\* C6 as stated: when a sink call failed the handler ends by raising, and no
\* sink is called twice.
C6_SinkFailureSurfaced ==
  /\ Len(metricCalls) <= 1 /\ Len(snsCalls) <= 1
  /\ (metricFailed \/ snsFailed) /\ pc \in {"returned", "raised"} => pc = "raised"

\* C6 as amended: a failure of sns.publish leaves the handler by the
\* exception, without a return value; a failure of put_metric_data is printed
\* and swallowed, the handler goes on to its usual result; each sink is called
\* at most once.
C6_AlertFailureSurfacedMetricFailureSwallowed ==
  /\ Len(metricCalls) <= 1 /\ Len(snsCalls) <= 1
  /\ snsFailed => pc = "raised" /\ cause = "sns" /\ ret = NoRet
  /\ metricFailed =>
       /\ printed # <<>> /\ printed[1] = "Failed to publish metric"
       /\ pc \in {"metric_done", "returned"} \/ (pc = "raised" /\ cause = "sns")
       /\ pc = "returned" => ret = [status |-> IF total_issues > 0 THEN "alerted" ELSE "ok",
                                    issues |-> total_issues]
C6_Witness == metricFailed /\ pc = "returned" /\ ret.status = "ok"

-----------------------------------------------------------------------------
(* Properties of preprocess_handler, under SpecN *)

HasData(r) ==
  /\ "endpoint_input" \in DOMAIN r
  /\ "data" \in DOMAIN r["endpoint_input"]
RecData(r) == r["endpoint_input"]["data"]
RecContentType(r) ==
  Lower(TagText(_get_attr(r["endpoint_input"],
          <<"content_type", "observed_content_type", "observedContentType">>, StrV(<<>>))).s)
RecEncoding(r) == Upper(TagText(_get_attr(r["endpoint_input"], <<"encoding">>, StrV(<<>>))).s)
\* a text payload with a JSON content type and no BASE64 encoding
PlainJson(r) ==
  /\ HasData(r) /\ RecData(r).t = "str"
  /\ HasSub(RecContentType(r), "json")
  /\ RecEncoding(r) # W("BASE64")
RowOf(values) ==
  IF values = None THEN [i \in 1..4 |-> [k |-> FEATURES[i], v |-> NaN]]
  ELSE [i \in 1..4 |-> [k |-> FEATURES[i], v |-> values.items[i]]]
MalformedPayloads == {StrV(CsvBad), StrV(JsonBad), StrV(CsvWords), StrV(CsvShort)}

C8_RowHasDeclaredFeatures ==
  npc = "done" /\ ~result.raised =>
     /\ Len(result.row) = Len(FEATURES)
     /\ \A i \in 1..Len(FEATURES) : result.row[i].k = FEATURES[i]
C8_Witness == npc = "done" /\ result.via = "base64_failed" /\ Len(result.row) = 4

\* the shapes of C9, read off the sentence
FlatNumbers(v) ==
  /\ v.t = "list" /\ Len(v.items) >= 4 /\ v.items[1].t # "list"
  /\ \A i \in 1..4 : PyFloat(v.items[i]).ok
ListOfLists(v) == v.t = "list" /\ v.items # <<>> /\ v.items[1].t = "list"
WrapperMatches(obj, key) ==
  /\ W(key) \in DOMAIN obj.d
  /\ FlatNumbers(obj.d[W(key)]) \/ ListOfLists(obj.d[W(key)])
FromList(v) == IF ListOfLists(v) THEN _as_float4(v.items[1]) ELSE _as_float4(v)
ShapeVector(obj) ==
  IF obj.t = "dict" /\ \A i \in 1..Len(FEATURES) : W(FEATURES[i]) \in DOMAIN obj.d
  THEN IF \A i \in 1..Len(FEATURES) : PyFloat(obj.d[W(FEATURES[i])]).ok
       THEN ListV([i \in 1..Len(FEATURES) |-> PyFloat(obj.d[W(FEATURES[i])]).v])
       ELSE None
  ELSE IF obj.t = "dict" /\ \E i \in 1..Len(WRAPPER_KEYS) : WrapperMatches(obj, WRAPPER_KEYS[i])
  THEN LET first == CHOOSE i \in 1..Len(WRAPPER_KEYS) :
                      /\ WrapperMatches(obj, WRAPPER_KEYS[i])
                      /\ \A j \in 1..(i - 1) : ~WrapperMatches(obj, WRAPPER_KEYS[j])
       IN FromList(obj.d[W(WRAPPER_KEYS[first])])
  ELSE IF obj.t = "list" THEN FromList(obj)
  ELSE None

\* C9: for a JSON payload the row is the vector of the first shape that
\* matches, in the order feature object, wrapper key (instances, inputs,
\* features, data) holding a flat list of at least 4 numbers or a list of
\* lists, bare list; it is the row of NaNs when none matches.
C9_FirstMatchingShape ==
  npc = "done" /\ PlainJson(rec) /\ json_loads(RecData(rec)).ok =>
     result.row = RowOf(ShapeVector(json_loads(RecData(rec)).v))

\* C10 as stated: a JSON-tagged payload that matches no JSON shape is parsed
\* by the CSV rule.
C10_JsonFallsThroughToCsv ==
  npc = "done" /\ PlainJson(rec) /\ _parse_json_any(LoadObj(RecData(rec))) = None =>
     result.row = RowOf(_parse_csv(RecData(rec).s))

\* C10 as amended: a JSON-tagged payload that is not valid JSON or matches no
\* JSON shape gives the row of NaNs; the CSV rule is not tried for it.
C10_JsonNeverFallsThroughToCsv ==
  npc = "done" /\ PlainJson(rec)
    /\ (~json_loads(RecData(rec)).ok
          \/ _parse_json_any(json_loads(RecData(rec)).v) = None) =>
     /\ \A i \in 1..4 : result.row[i].v = NaN
     /\ result.via = "unparseable"
C10_Witness ==
  /\ npc = "done" /\ PlainJson(rec) /\ RecData(rec) = StrV(CsvLine)
  /\ _parse_csv(RecData(rec).s) # None
  /\ \A i \in 1..4 : result.row[i].v = NaN

-----------------------------------------------------------------------------
(* The CSV rule *)

\* a text payload that takes the CSV branch as it is
PlainCsv(r) ==
  /\ HasData(r) /\ RecData(r).t = "str"
  /\ ~HasSub(RecContentType(r), "json")
  /\ RecEncoding(r) # W("BASE64")
Blank(line) == \A i \in DOMAIN line : IsWs(line[i])
\* the last line of the text that holds anything but white space
LastNonEmptyLine(t) ==
  LET ls == Split(t, {NL})
      full == {i \in DOMAIN ls : ~Blank(ls[i])}
  IN IF full = {} THEN <<>> ELSE ls[CHOOSE i \in full : \A j \in full : j <= i]
\* the maximal runs of the line that hold no comma and no white space
LineTokens(line) == SelectSeq(Split(line, {",", SP}), LAMBDA p : p # <<>>)
\* a token float() accepts: one numeric literal, or nan
NumericToken(p) == Len(p) = 1 /\ IsC(p[1]) /\ p[1].c \in DOMAIN NumLit \cup {"nan", "NaN"}
TokenValue(p) == IF p[1].c \in DOMAIN NumLit THEN Num(NumLit[p[1].c]) ELSE NaN
CsvSucceeds(t) ==
  LET tk == LineTokens(LastNonEmptyLine(t))
  IN Len(tk) >= 4 /\ \A i \in 1..4 : NumericToken(tk[i])

\* C11: a CSV payload is parsed from its last non-empty line alone: the call
\* succeeds exactly when that line has at least 4 tokens, split on commas or
\* white space, of which the first 4 are numeric, and the row then holds those
\* 4 numbers in order.
C11_CsvLastLineFirstFour ==
  (npc = "done" /\ PlainCsv(rec)) =>
     LET t == RecData(rec).s
         tk == LineTokens(LastNonEmptyLine(t))
     IN /\ ~result.raised
        /\ (result.via = "parsed") = CsvSucceeds(t)
        /\ CsvSucceeds(t) =>
              \A i \in 1..4 : result.row[i] = [k |-> FEATURES[i], v |-> TokenValue(tk[i])]
        /\ ~CsvSucceeds(t) => \A i \in 1..4 : result.row[i].v = NaN
\* a header line before the data line, blank lines after it
C11_Witness ==
  /\ npc = "done" /\ PlainCsv(rec) /\ RecData(rec).s = CsvHeader
  /\ result.via = "parsed" /\ result.row[1].v = Num(51)

-----------------------------------------------------------------------------
(* The BASE64 encoding tag *)

\* a text or bytes payload tagged BASE64, and its text
B64Tagged(r) ==
  /\ HasData(r) /\ RecData(r).t \in {"str", "bytes"}
  /\ RecEncoding(r) = W("BASE64")
PayloadText(r) == IF RecData(r).t = "bytes" THEN DecodeUtf8(RecData(r).s) ELSE RecData(r).s
\* base64 text in the strict sense: nothing but encoded units
ValidBase64(t) == \A i \in DOMAIN t : IsE(t[i])
\* what the lenient decoder rejects: the characters of the alphabet do not
\* come in groups of 4
DecodeFails(t) == AlphaCount(t) % 4 # 0
\* the text the units of the payload encode
EncodedText(t) == B64Units(t)
NanRow(row) == Len(row) = 4 /\ \A i \in 1..4 : row[i].v = NaN
RowValues(row) == [i \in 1..4 |-> row[i].v]
V4Values == [i \in 1..4 |-> Num(NumLit[V4[i]])]

-----------------------------------------------------------------------------
(* The two encodings of a vector *)

VecValues(v) == [i \in 1..4 |-> Num(NumLit[v[i]])]

\* C13: a vector of 4 numbers encoded as {"instances": [v]} with a JSON
\* content type, and encoded as the CSV line of its values with a CSV content
\* type, is normalized to the same feature vector both ways: v itself.
C13_JsonAndCsvAgree ==
  npc = "done" =>
    \A v \in Vectors :
      (rec = JsonRecord(v) \/ rec = CsvRecord(v)) =>
         /\ ~result.raised /\ result.via = "parsed"
         /\ result.row = [i \in 1..4 |-> [k |-> FEATURES[i], v |-> VecValues(v)[i]]]
C13_Witness ==
  /\ npc = "done" /\ rec = JsonRecord(<<"9.5", "1", "1.4", "0.2">>)
  /\ RowValues(result.row) = <<Num(95), Num(10), Num(14), Num(2)>>

-----------------------------------------------------------------------------
(* monitoring/baseline_build.py                                              *)
(* A cell of the training CSV is a number (in tenths), a text, or NaN for an *)
(* empty field.  Percentiles are kept in thousandths, bin edges in           *)
(* thousandths divided by the number of bins, so that all arithmetic is      *)
(* exact.                                                                     *)

COLS == FEATURES \o <<"species">>
BINS == 20

\* DataFrame.dropna(): the rows without an empty field
DropNa(rows) == SelectSeq(rows, LAMBDA r : \A i \in 1..Len(COLS) : r[i] # NaN)

\* pd.to_numeric(df[f], errors="coerce").dropna().to_numpy(), in tenths
ToNumeric(cell) ==
  IF cell.t = "num" THEN cell
  ELSE IF cell.t = "str" /\ PyFloat(cell).ok THEN PyFloat(cell).v
  ELSE NaN
RECURSIVE CleanColumn(_, _)
CleanColumn(rows, i) ==
  IF rows = <<>> THEN <<>>
  ELSE (IF ToNumeric(Head(rows)[i]).t = "num" THEN <<ToNumeric(Head(rows)[i]).n>> ELSE <<>>)
       \o CleanColumn(Tail(rows), i)

RECURSIVE SumOf(_)
SumOf(x) == IF x = <<>> THEN 0 ELSE Head(x) + SumOf(Tail(x))
RECURSIVE SumSq(_)
SumSq(x) == IF x = <<>> THEN 0 ELSE Head(x) * Head(x) + SumSq(Tail(x))
MinOf(x) == CHOOSE v \in {x[i] : i \in DOMAIN x} : \A j \in DOMAIN x : v <= x[j]
MaxOf(x) == CHOOSE v \in {x[i] : i \in DOMAIN x} : \A j \in DOMAIN x : v >= x[j]
RECURSIVE Insert(_, _)
Insert(v, sorted) ==
  IF sorted = <<>> THEN <<v>>
  ELSE IF v <= Head(sorted) THEN <<v>> \o sorted
  ELSE <<Head(sorted)>> \o Insert(v, Tail(sorted))
RECURSIVE SortAsc(_)
SortAsc(x) == IF x = <<>> THEN <<>> ELSE Insert(Head(x), SortAsc(Tail(x)))

\* np.nanpercentile(x, q) with linear interpolation, in thousandths: the
\* position q/100 * (n - 1) between two neighbours of the sorted values
Percentile(x, q) ==
  LET xs == SortAsc(x)
      n == Len(xs)
      k == (q * (n - 1)) \div 100
      r == (q * (n - 1)) % 100
  IN IF k + 1 >= n THEN 100 * xs[n]
     ELSE 100 * xs[k + 1] + r * (xs[k + 2] - xs[k + 1])

\* the same without the guard against hi <= lo
compute_hist_bins_unguarded(x, bins) ==
  LET lo == Percentile(x, 1)
      hi == Percentile(x, 99)
  IN [i \in 1..(bins + 1) |-> bins * lo + (i - 1) * (hi - lo)]

\* np.linspace(lo, hi, bins + 1): edge i is lo + i * (hi - lo) / bins
compute_hist_bins(x, bins) ==
  LET lo == Percentile(x, 1)
      hi0 == Percentile(x, 99)
      hi == IF hi0 <= lo THEN lo + 1000 ELSE hi0
  IN [i \in 1..(bins + 1) |-> bins * lo + (i - 1) * (hi - lo)]

\* baseline["features"][f]: the mean as a fraction, the standard deviation
\* as the variance whose root it is (plus 1e-9)
FeatureEntry(f, x) ==
  [name |-> f,
   mean |-> [num |-> SumOf(x), den |-> Len(x)],
   std  |-> [sqrt_of_num |-> Len(x) * SumSq(x) - SumOf(x) * SumOf(x),
             sqrt_of_den |-> Len(x) * Len(x), plus |-> "1e-9"],
   min  |-> MinOf(x),
   max  |-> MaxOf(x),
   bins |-> compute_hist_bins(x, BINS)]

\* json.dumps(baseline): the document that is put
Artifact(features) ==
  [features |-> features, schema |-> [features |-> FEATURES, format |-> "csv"]]

\* rows of the training CSV
RowA == <<Num(51), Num(35), Num(14), Num(2), StrV(W("setosa"))>>
RowB == <<Num(70), Num(32), Num(47), Num(14), StrV(W("versicolor"))>>
\* the same sepal_length as RowA
RowC == <<Num(51), Num(30), Num(13), Num(2), StrV(W("setosa"))>>
\* a header line
RowHeader == [i \in 1..5 |-> StrV(W(COLS[i]))]
\* no species
RowNoSpecies == <<Num(63), Num(33), Num(60), Num(25), NaN>>
\* a sepal_width that is not a number
RowBadWidth == <<Num(58), StrV(W("abc")), Num(51), Num(19), StrV(W("virginica"))>>
RowPool == {RowA, RowB, RowC, RowHeader, RowNoSpecies, RowBadWidth}
MaxRows == 3
RECURSIVE SeqsUpTo(_, _)
SeqsUpTo(S, n) ==
  IF n = 0 THEN {<<>>}
  ELSE SeqsUpTo(S, n - 1) \cup {Append(q, e) : q \in SeqsUpTo(S, n - 1), e \in S}
Datasets == SeqsUpTo(RowPool, MaxRows)

BInit ==
  /\ dataset \in Datasets
  /\ bpc = "start" /\ df = <<>> /\ baseline = <<>>
  /\ stored = Previous /\ puts = 0 /\ berr = "none"
  /\ rec = NoAttrs /\ result = NoResult /\ npc = "idle"
  /\ variant = "drift_lambda" /\ SNS_TOPIC_ARN = "" /\ HIdle
  /\ AIdle /\ XIdle

\* get_object, read_csv, dropna and the check for an empty frame
GetDataset ==
  /\ bpc = "start"
  /\ df' = DropNa(dataset)
  /\ IF df' = <<>>
     THEN bpc' = "failed" /\ berr' = "empty_dataset"
     ELSE bpc' = "features" /\ berr' = berr
  /\ UNCHANGED <<dataset, baseline, stored, puts, nvars, hvars, avars, xvars>>

\* get_object raises
GetDatasetFails ==
  /\ bpc = "start"
  /\ bpc' = "failed" /\ berr' = "get_object"
  /\ UNCHANGED <<dataset, df, baseline, stored, puts, nvars, hvars, avars, xvars>>

\* one pass of the loop that also puts what it has so far
ComputeFeature_puts_each ==
  /\ bpc = "features"
  /\ LET i == Len(baseline) + 1
         x == CleanColumn(df, i)
     IN IF x = <<>>
        THEN /\ bpc' = "failed" /\ berr' = "empty_column"
             /\ UNCHANGED <<baseline, stored, puts>>
        ELSE /\ baseline' = Append(baseline, FeatureEntry(FEATURES[i], x))
             /\ stored' = Artifact(baseline')
             /\ puts' = puts + 1
             /\ bpc' = IF i = Len(FEATURES) THEN "put" ELSE "features"
             /\ berr' = berr
  /\ UNCHANGED <<dataset, df, nvars, hvars, avars, xvars>>

\* one pass of for f in FEATURES: np.min of an empty column raises
ComputeFeature ==
  /\ bpc = "features"
  /\ LET i == Len(baseline) + 1
         x == CleanColumn(df, i)
     IN IF x = <<>>
        THEN /\ bpc' = "failed" /\ berr' = "empty_column"
             /\ UNCHANGED baseline
        ELSE /\ baseline' = Append(baseline, FeatureEntry(FEATURES[i], x))
             /\ bpc' = IF i = Len(FEATURES) THEN "put" ELSE "features"
             /\ berr' = berr
  /\ UNCHANGED <<dataset, df, stored, puts, nvars, hvars, avars, xvars>>

\* s3.put_object(Body=json.dumps(baseline))
PutBaseline ==
  /\ bpc = "put"
  /\ stored' = Artifact(baseline)
  /\ puts' = puts + 1
  /\ bpc' = "written"
  /\ UNCHANGED <<dataset, df, baseline, berr, nvars, hvars, avars, xvars>>

\* put_object raises
PutBaselineFails ==
  /\ bpc = "put"
  /\ bpc' = "failed" /\ berr' = "put_object"
  /\ UNCHANGED <<dataset, df, baseline, stored, puts, nvars, hvars, avars, xvars>>

BNext == GetDataset \/ GetDatasetFails \/ ComputeFeature \/ PutBaseline \/ PutBaselineFails
SpecB == BInit /\ [][BNext]_vars

-----------------------------------------------------------------------------
(* Properties of baseline_build, under SpecB *)

\* the cleaned rows, and the datasets for which the build has to fail: no
\* row left, or a feature column with no number left
CleanRows(rows) == SelectSeq(rows, LAMBDA r : \A i \in 1..5 : r[i] # NaN)
NumericCell(c) == c.t = "num" \/ (c.t = "str" /\ PyFloat(c).ok)
BuildMustFail(rows) ==
  \/ CleanRows(rows) = <<>>
  \/ \E i \in 1..4 : \A k \in DOMAIN CleanRows(rows) : ~NumericCell(CleanRows(rows)[k][i])
\* an artifact with the statistics of every declared feature, in order
CompleteArtifact(a) ==
  /\ DOMAIN a = {"features", "schema"}
  /\ Len(a.features) = 4
  /\ \A i \in 1..4 :
        /\ a.features[i].name = FEATURES[i]
        /\ {"mean", "std", "min", "max", "bins"} \subseteq DOMAIN a.features[i]

\* C14: a build that fails writes nothing, and the artifact is written by one
\* write made after the statistics of every declared feature were computed:
\* the stored object is the previous artifact or a complete new one.
C14_NoPartialArtifact ==
  /\ stored = Previous \/ CompleteArtifact(stored)
  /\ puts <= 1
  /\ stored # Previous => (bpc = "written" /\ puts = 1 /\ stored = Artifact(baseline))
  /\ bpc = "failed" => (stored = Previous /\ puts = 0 /\ berr # "none")
  /\ BuildMustFail(dataset) => (stored = Previous /\ bpc \notin {"put", "written"})
  /\ (BuildMustFail(dataset) /\ bpc = "features") => Len(baseline) < 4
\* the build failed on a later feature, after computing an earlier one
C14_Witness ==
  /\ bpc = "failed" /\ berr = "empty_column" /\ Len(baseline) >= 1
  /\ stored = Previous /\ puts = 0

StrictlyIncreasing(e) == \A i \in 1..(Len(e) - 1) : e[i] < e[i + 1]
\* the feature entries computed so far and those of the stored artifact
AllEntries ==
  {baseline[i] : i \in DOMAIN baseline}
  \cup (IF stored = Previous THEN {} ELSE {stored.features[i] : i \in DOMAIN stored.features})
FeatureIndex(f) == CHOOSE i \in 1..4 : FEATURES[i] = f
ColumnOf(e) == CleanColumn(CleanRows(dataset), FeatureIndex(e.name))

C16_BinFrequenciesStored ==
  stored # Previous =>
    \A i \in DOMAIN stored.features :
      LET e == stored.features[i]
      IN /\ "bin_frequencies" \in DOMAIN e
         /\ Len(e.bin_frequencies.num) = BINS
         /\ SumOf(e.bin_frequencies.num) = e.bin_frequencies.den
         /\ \A k \in 1..BINS : e.bin_frequencies.num[k] > 0

\* the bin of a value among the edges e[1] < ... < e[N + 1]: bin i starts at
\* e[i], the last bin takes its upper edge too, values outside go to the
\* nearest boundary bin
AssignBin(e, v) ==
  LET N == Len(e) - 1
  IN IF v < e[1] THEN 1
     ELSE IF v >= e[N + 1] THEN N
     ELSE CHOOSE i \in 1..N : e[i] <= v /\ v < e[i + 1]
\* a value in tenths on the scale of the edges
OnEdgeScale(v) == v * 100 * BINS
BinCounts(e, x) ==
  [k \in 1..(Len(e) - 1) |->
     Cardinality({j \in DOMAIN x : AssignBin(e, OnEdgeScale(x[j])) = k})]

\* C17: every value is assigned to exactly one bin by the assign-to-bin rule,
\* so the histogram counts kept with a feature's edges are those of the rule
\* and sum to the number of values.
C17_EveryValueInOneBin ==
  stored # Previous =>
    \A i \in DOMAIN stored.features :
      LET e == stored.features[i]
      IN /\ "bin_counts" \in DOMAIN e
         /\ e.bin_counts = BinCounts(e.bins, ColumnOf(e))
         /\ SumOf(e.bin_counts) = Len(ColumnOf(e))

-----------------------------------------------------------------------------
(* monitoring/mm_create_drift_alarm.py: one CloudWatch alarm per feature on  *)
(* the metric feature_baseline_drift_<feature>, and what CloudWatch does     *)
(* with an alarm of these parameters.  Metric values are in tenths.          *)

TOPIC_ARN == "arn:aws:sns:topic"

\* the same with the strict comparison
AlarmParams_strict(feat, thr) ==
  [AlarmActions |-> <<TOPIC_ARN>>, OKActions |-> <<TOPIC_ARN>>,
   MetricName |-> <<"feature_baseline_drift_", feat>>,
   Statistic |-> "Sum", Threshold |-> thr,
   ComparisonOperator |-> "GreaterThanThreshold",
   TreatMissingData |-> "notBreaching"]

\* the arguments of cw_client.put_metric_alarm
AlarmParams(feat, thr) ==
  [AlarmActions |-> <<TOPIC_ARN>>, OKActions |-> <<TOPIC_ARN>>,
   MetricName |-> <<"feature_baseline_drift_", feat>>,
   Statistic |-> "Sum", Threshold |-> thr,
   ComparisonOperator |-> "GreaterThanOrEqualToThreshold",
   TreatMissingData |-> "notBreaching"]

\* the sum of a period: of its data points, or of none
NoData == [has |-> FALSE, v |-> 0]
SumIs(n) == [has |-> TRUE, v |-> n]
\* does the period's sum breach the alarm's threshold
Breaches(a, sum) ==
  IF ~sum.has THEN a.TreatMissingData = "breaching"
  ELSE CASE a.ComparisonOperator = "GreaterThanOrEqualToThreshold" -> sum.v >= a.Threshold
         [] a.ComparisonOperator = "GreaterThanThreshold" -> sum.v > a.Threshold
         [] a.ComparisonOperator = "LessThanThreshold" -> sum.v < a.Threshold
         [] a.ComparisonOperator = "LessThanOrEqualToThreshold" -> sum.v <= a.Threshold

Thresholds == {5, 10, 20}
Sums == {NoData} \cup {SumIs(n) : n \in {0, 5, 10, 15, 20, 25}}
MaxEvals == 2

AInit ==
  /\ apc = "start"
  /\ threshold \in Thresholds
  /\ alarms = <<>> /\ alarmState = <<>> /\ notified = <<>> /\ evals = 0
  /\ rec = NoAttrs /\ result = NoResult /\ npc = "idle"
  /\ variant = "drift_lambda" /\ SNS_TOPIC_ARN = "" /\ HIdle
  /\ BIdle /\ XIdle

\* ensure_sns_topic: create_topic and subscribe
EnsureSnsTopic ==
  /\ apc = "start"
  /\ apc' = "alarms"
  /\ UNCHANGED <<threshold, alarms, alarmState, notified, evals, nvars, hvars, bvars, xvars>>

\* one pass of for feat in features: put_drift_alarm
PutDriftAlarm ==
  /\ apc = "alarms"
  /\ LET i == Cardinality(DOMAIN alarms) + 1
         feat == FEATURES[i]
     IN /\ alarms' = (feat :> AlarmParams(feat, threshold)) @@ alarms
        /\ alarmState' = (feat :> [state |-> "INSUFFICIENT_DATA", last |-> NoData]) @@ alarmState
        /\ apc' = IF i = Len(FEATURES) THEN "done" ELSE "alarms"
  /\ UNCHANGED <<threshold, notified, evals, nvars, hvars, bvars, xvars>>

\* CloudWatch evaluates the alarm of one feature at the end of a period
Evaluate ==
  /\ evals < MaxEvals
  /\ \E feat \in DOMAIN alarms, sum \in Sums :
       LET new == IF Breaches(alarms[feat], sum) THEN "ALARM" ELSE "OK"
           old == alarmState[feat].state
       IN /\ alarmState' = [alarmState EXCEPT ![feat] = [state |-> new, last |-> sum]]
          /\ notified' =
               IF new = old THEN notified
               ELSE Append(notified,
                      [to |-> IF new = "ALARM" THEN alarms[feat].AlarmActions
                              ELSE alarms[feat].OKActions,
                       feature |-> feat, state |-> new, sum |-> sum])
  /\ evals' = evals + 1
  /\ UNCHANGED <<apc, threshold, alarms, nvars, hvars, bvars, xvars>>

ANext == EnsureSnsTopic \/ PutDriftAlarm \/ Evaluate
SpecA == AInit /\ [][ANext]_vars

-----------------------------------------------------------------------------
(* The handler's result against a baseline, under Spec *)

\* the value of feature i in a validated row, when the row has one
HasFeature(row, i) ==
  \/ row.t = "list" /\ Len(row.items) >= 4 /\ PyFloat(row.items[i]).ok
       /\ PyFloat(row.items[i]).v.t = "num"
  \/ row.t = "dict" /\ W(FEATURES[i]) \in DOMAIN row.d /\ PyFloat(row.d[W(FEATURES[i])]).ok
       /\ PyFloat(row.d[W(FEATURES[i])]).v.t = "num"
FeatureValue(row, i) ==
  IF row.t = "list" THEN PyFloat(row.items[i]).v.n ELSE PyFloat(row.d[W(FEATURES[i])]).v.n
\* every captured record of the batch gave numeric feature vectors
ParseableBatch ==
  /\ validated # <<>> /\ dropped = 0
  /\ \A k \in DOMAIN validated : \A i \in 1..4 : HasFeature(validated[k], i)
BatchColumn(i) == [k \in DOMAIN validated |-> FeatureValue(validated[k], i)]
\* what the handler holds against feature i: the rows it flagged for it
FeatureScore(i) ==
  Cardinality({k \in DOMAIN violations :
     \E j \in DOMAIN violations[k].issues :
        /\ violations[k].issues[j].kind # "invalid_row_format"
        /\ violations[k].issues[j].k = FEATURES[i]})
\* the training rows of the baseline the batch is scored against
ReferenceRows == <<RowA, RowB, RowC>>
\* two columns have the same normalized histogram over the edges
SameHistogram(e, x, y) ==
  \A k \in 1..(Len(e) - 1) : BinCounts(e, x)[k] * Len(y) = BinCounts(e, y)[k] * Len(x)

\* C19: the drift score of a feature is computed against the baseline's
\* histogram of that feature: it is never negative and it is 0 exactly when
\* the batch's histogram over the baseline's bins equals the baseline's.
C19_ScoreAgainstBaseline ==
  (pc = "returned" /\ ParseableBatch) =>
    \A i \in 1..4 :
      LET x == CleanColumn(DropNa(ReferenceRows), i)
          e == compute_hist_bins(x, BINS)
      IN /\ FeatureScore(i) >= 0
         /\ (FeatureScore(i) = 0) = SameHistogram(e, x, BatchColumn(i))

\* the baseline's sepal_length values lie in 5.0-6.0, those of the batch in 9.0-9.5
ClusteredBaseline ==
  \A v \in {CleanColumn(DropNa(<<RowA, RowC>>), 1)[k] : k \in 1..2} : 50 <= v /\ v <= 60
FarBatch ==
  /\ ParseableBatch
  /\ \A k \in DOMAIN validated :
        90 <= FeatureValue(validated[k], 1) /\ FeatureValue(validated[k], 1) <= 95

\* C20: against a baseline clustered in 5.0-6.0, a batch of parseable
\* records whose sepal_length values all lie in 9.0-9.5 is reported as drift:
\* the emitted score is above 1.0 and the handler alerts.
C20_FarBatchAlerts ==
  (pc = "returned" /\ ClusteredBaseline /\ FarBatch) =>
     /\ ret.status = "alerted"
     /\ ret.issues > 0
     /\ metricCalls # <<>> /\ metricCalls[Len(metricCalls)] > 1

(***************************************************************************)
(* Two invocations of the handler under way at once.  Each call has its    *)
(* own locals (total_issues, samples, the loop positions); the module      *)
(* level holds the three clients and the constants read from the           *)
(* environment, which no call assigns.  Each event names one object.       *)
(***************************************************************************)
Invocations == {1, 2}

\* the objects the two events name
ConcBodies ==
  {<<>>,
   Lines(<<LineOkJson, LineOkCsv>>),
   Lines(<<LineHighJson, LineWordsCsv>>),
   Lines(<<LineTwoRows, LineHighJson, LineScalar, LineTwoRows>>),
   Lines(<<LineNumType, LineHighJson>>),
   Lines(<<LineNull>>),
   Lines(<<LineNotObject, LineHighJson>>)}

Locals(p, body) ==
  [pc |-> p, body |-> body, items |-> <<>>, rowsPending |-> <<>>, total_issues |-> 0,
   samples |-> <<>>, ret |-> NoRet, cause |-> "none"]

CInit ==
  /\ variant \in {"drift_lambda", "deploy_monitoring"}
  /\ SNS_TOPIC_ARN \in {"", "arn:aws:sns:topic"}
  /\ HIdle /\ BIdle /\ AIdle /\ TIdle /\ EIdle /\ LIdle /\ SIdle
  /\ rec = NoAttrs /\ result = NoResult /\ npc = "idle"
  /\ inv = [i \in Invocations |-> Locals("idle", <<>>)]
  /\ cwSink = <<>> /\ snsSink = <<>>

COthers == <<nvars, hvars, bvars, avars, tvars, evars, lvars, svars>>

\* handler(event, context) is called for invocation i: total_issues = 0, samples = []
CInvoke(i) ==
  /\ inv[i].pc = "idle"
  /\ \E body \in ConcBodies : inv' = [inv EXCEPT ![i] = Locals("records", body)]
  /\ UNCHANGED <<COthers, cwSink, snsSink>>

\* s3.get_object and the read of the body; _parse_jsonl starts
CGetObject(i) ==
  /\ inv[i].pc = "records"
  /\ inv' = [inv EXCEPT ![i].items = _parse_jsonl(inv[i].body),
                        ![i].pc = IF _parse_jsonl(inv[i].body) = <<>> THEN "publish" ELSE "items"]
  /\ UNCHANGED <<COthers, cwSink, snsSink>>

\* s3.get_object raises
CGetObjectFails(i) ==
  /\ inv[i].pc = "records"
  /\ inv' = [inv EXCEPT ![i].pc = "raised", ![i].cause = "s3"]
  /\ UNCHANGED <<COthers, cwSink, snsSink>>

\* where the loops of invocation i stand once the current step is done
CLoopPc(its, rows) ==
  IF rows # <<>> THEN "rows" ELSE IF its # <<>> THEN "items" ELSE "publish"

\* the next item of _parse_jsonl: its rows are extracted
CNextItem(i) ==
  /\ inv[i].pc = "items" /\ inv[i].items # <<>>
  /\ LET item == Head(inv[i].items)
     IN IF ExtractRaises(variant, item)
        THEN inv' = [inv EXCEPT ![i].pc = "raised", ![i].cause = "record"]
        ELSE inv' = [inv EXCEPT ![i].rowsPending = RowsIter(variant, item),
                                ![i].items = Tail(inv[i].items),
                                ![i].pc = CLoopPc(Tail(inv[i].items), RowsIter(variant, item))]
  /\ UNCHANGED <<COthers, cwSink, snsSink>>

\* total_issues and samples kept at module level: every call sees the update
CValidateRow_module_level(i) ==
  /\ inv[i].pc = "rows" /\ inv[i].rowsPending # <<>>
  /\ LET row == Head(inv[i].rowsPending)
         issues == _validate_row(row)
         Counted(l) ==
           IF issues # <<>>
           THEN [l EXCEPT !.total_issues = @ + 1,
                          !.samples = KeepSample(@, Sample(row, issues))]
           ELSE l
     IN inv' = [j \in Invocations |->
                  IF j = i
                  THEN [Counted(inv[j]) EXCEPT
                          !.rowsPending = Tail(inv[i].rowsPending),
                          !.pc = CLoopPc(inv[i].items, Tail(inv[i].rowsPending))]
                  ELSE Counted(inv[j])]
  /\ UNCHANGED <<COthers, cwSink, snsSink>>

\* one turn of `for row in rows_iter` in invocation i
CValidateRow(i) ==
  /\ inv[i].pc = "rows" /\ inv[i].rowsPending # <<>>
  /\ LET row == Head(inv[i].rowsPending)
         issues == _validate_row(row)
     IN inv' = [inv EXCEPT
                  ![i].total_issues = IF issues # <<>> THEN @ + 1 ELSE @,
                  ![i].samples = IF issues # <<>> THEN KeepSample(@, Sample(row, issues)) ELSE @,
                  ![i].rowsPending = Tail(inv[i].rowsPending),
                  ![i].pc = CLoopPc(inv[i].items, Tail(inv[i].rowsPending))]
  /\ UNCHANGED <<COthers, cwSink, snsSink>>

\* _publish_metric(total_issues): a failure of put_metric_data is printed
CPublishMetric(i) ==
  /\ inv[i].pc = "publish"
  /\ \E ok \in BOOLEAN :
       cwSink' = IF ok THEN Append(cwSink, [by |-> i, value |-> inv[i].total_issues])
                 ELSE cwSink
  /\ inv' = [inv EXCEPT ![i].pc = "metric_done"]
  /\ UNCHANGED <<COthers, snsSink>>

\* if total_issues > 0: _alert(...) and return "alerted"
CAlert(i) ==
  /\ inv[i].pc = "metric_done" /\ inv[i].total_issues > 0
  /\ LET alerted == [status |-> "alerted", issues |-> inv[i].total_issues]
         msg == [issue_count |-> inv[i].total_issues, samples |-> inv[i].samples]
     IN IF SNS_TOPIC_ARN = ""
        THEN /\ inv' = [inv EXCEPT ![i].ret = alerted, ![i].pc = "returned"]
             /\ UNCHANGED snsSink
        ELSE \E ok \in BOOLEAN :
               IF ok
               THEN /\ snsSink' = Append(snsSink, [by |-> i, msg |-> msg])
                    /\ inv' = [inv EXCEPT ![i].ret = alerted, ![i].pc = "returned"]
               ELSE /\ inv' = [inv EXCEPT ![i].pc = "raised", ![i].cause = "sns"]
                    /\ UNCHANGED snsSink
  /\ UNCHANGED <<COthers, cwSink>>

\* otherwise return "ok"
CReturnOk(i) ==
  /\ inv[i].pc = "metric_done" /\ inv[i].total_issues = 0
  /\ inv' = [inv EXCEPT ![i].ret = [status |-> "ok", issues |-> 0], ![i].pc = "returned"]
  /\ UNCHANGED <<COthers, cwSink, snsSink>>

CNext ==
  \E i \in Invocations :
    \/ CInvoke(i) \/ CGetObject(i) \/ CGetObjectFails(i) \/ CNextItem(i)
    \/ CValidateRow(i) \/ CPublishMetric(i) \/ CAlert(i) \/ CReturnOk(i)

SpecC == CInit /\ [][CNext]_vars

(***************************************************************************)
(* Properties of concurrent invocations, under SpecC *)
(***************************************************************************)
Tally(n, smp) == [total |-> n, samples |-> smp]

\* `for row in rows_iter` run to its end from the tally acc
RECURSIVE AloneRows(_, _)
AloneRows(rows, acc) ==
  IF rows = <<>> THEN acc
  ELSE LET issues == _validate_row(Head(rows))
       IN AloneRows(Tail(rows),
                    IF issues # <<>>
                    THEN Tally(acc.total + 1, KeepSample(acc.samples, Sample(Head(rows), issues)))
                    ELSE acc)

\* `for item in _parse_jsonl(body)` run to its end, or to the item that raises
RECURSIVE AloneItems(_, _, _)
AloneItems(v, its, acc) ==
  IF its = <<>> THEN [raised |-> FALSE, tally |-> acc]
  ELSE IF ExtractRaises(v, Head(its)) THEN [raised |-> TRUE, tally |-> acc]
  ELSE AloneItems(v, Tail(its), AloneRows(RowsIter(v, Head(its)), acc))

\* what the handler of variant v makes of the object body when no other call runs
Alone(v, body) == AloneItems(v, _parse_jsonl(body), Tally(0, <<>>))

AloneReturn(a) ==
  IF a.tally.total > 0 THEN [status |-> "alerted", issues |-> a.tally.total]
  ELSE [status |-> "ok", issues |-> 0]

PastLoops(l) ==
  l.pc \in {"publish", "metric_done", "returned"} \/ (l.pc = "raised" /\ l.cause = "sns")

\* C21: however the steps of two invocations on their batches interleave,
\* each invocation counts the issues, keeps the samples and takes the alert
\* decision it would running alone (and raises on a record exactly when it
\* would alone); what it sends to the metric and alert sinks is its own
\* count and samples; the stored baseline object is never changed.
C21_InvocationsIndependent ==
  /\ \A i \in Invocations :
       LET l == inv[i]
           a == Alone(variant, l.body)
       IN /\ PastLoops(l) =>
               /\ ~a.raised
               /\ l.total_issues = a.tally.total
               /\ l.samples = a.tally.samples
          /\ l.pc = "returned" => l.ret = AloneReturn(a)
          /\ (l.pc = "raised" /\ l.cause = "record") => a.raised
          /\ (l.pc = "raised" /\ l.cause = "sns") => a.tally.total > 0
  /\ \A k \in DOMAIN cwSink :
       cwSink[k].value = Alone(variant, inv[cwSink[k].by].body).tally.total
  /\ \A k \in DOMAIN snsSink :
       LET a == Alone(variant, inv[snsSink[k].by].body)
       IN snsSink[k].msg = [issue_count |-> a.tally.total, samples |-> a.tally.samples]
  /\ stored = Previous

\* both invocations have returned, on different batches, with different results
C21_Witness ==
  /\ inv # <<>>
  /\ inv[1].pc = "returned" /\ inv[2].pc = "returned"
  /\ inv[1].body # inv[2].body
  /\ inv[1].ret.status = "alerted" /\ inv[2].ret.status = "alerted"
  /\ inv[1].ret.issues < inv[2].ret.issues
  /\ Len(cwSink) = 2 /\ cwSink[1].by = 2

\* the other lambda_function.py
OtherVariant(v) == IF v = "drift_lambda" THEN "deploy_monitoring" ELSE "drift_lambda"

\* C30: on the same object content the handler embedded in drift_lambda.py
\* and the one embedded in deploy_monitoring.py agree: an invocation of one
\* raises on a record exactly when the other would, and when it returns, the
\* other would return the same status and issue count, with the same samples.
C30_HandlersEquivalent ==
  \A i \in Invocations :
    LET l == inv[i]
        o == Alone(OtherVariant(variant), l.body)
    IN /\ (l.pc = "raised" /\ l.cause = "record") => o.raised
       /\ PastLoops(l) =>
            /\ ~o.raised
            /\ l.total_issues = o.tally.total
            /\ l.samples = o.tally.samples
       /\ l.pc = "returned" => l.ret = AloneReturn(o)

(***************************************************************************)
(* ensure_lambda_invoke_permission and ensure_s3_trigger of                *)
(* monitoring/drift_lambda.py and monitoring/deploy_monitoring.py (the two *)
(* copies differ in the names of their locals only), with the Lambda       *)
(* resource policy and the S3 notification configurations they act on.     *)
(* A name is the sequence of its characters; the literal s3-invoke- is     *)
(* kept in one piece.                                                      *)
(***************************************************************************)
Alnum ==
  {"a", "b", "c", "d", "e", "f", "g", "h", "i", "j", "k", "l", "m", "n", "o", "p", "q",
   "r", "s", "t", "u", "v", "w", "x", "y", "z", "0", "1", "2", "3", "4", "5", "6", "7",
   "8", "9"}
S3_INVOKE == "s3-invoke-"
SID_CAP == 90
PieceLen(a) == IF a = S3_INVOKE THEN 10 ELSE 1
RECURSIVE TextLen(_)
TextLen(s) == IF s = <<>> THEN 0 ELSE PieceLen(Head(s)) + TextLen(Tail(s))
\* s[:n]
RECURSIVE TakeChars(_, _)
TakeChars(s, n) ==
  IF s = <<>> \/ PieceLen(Head(s)) > n THEN <<>>
  ELSE <<Head(s)>> \o TakeChars(Tail(s), n - PieceLen(Head(s)))

\* "".join(ch if ch.isalnum() or ch in "-_" else "-" for ch in s)[:90]
_safe_statement_id(s) ==
  TakeChars([i \in DOMAIN s |->
               IF s[i] \in Alnum \cup {"-", "_", S3_INVOKE} THEN s[i] ELSE "-"],
            SID_CAP)

\* f"s3-invoke-{bucket}-{lambda_name}"
StatementName(bucket, lambda_name) == <<S3_INVOKE>> \o bucket \o <<"-">> \o lambda_name

LAMBDA_NAME == <<"f", "n">>
LAMBDA_ARN == "arn:aws:lambda:fn"
BucketDot == <<"a", ".", "b">>        \* the bucket a.b
BucketDash == <<"a", "-", "b">>       \* the bucket a-b
Buckets == {BucketDot, BucketDash}
PREFIX == "monitoring/datacapture/"

\* the statement add_permission puts into the function's policy
Statement(sid, bucket) ==
  [Sid |-> sid, Action |-> "lambda:InvokeFunction", Principal |-> "s3.amazonaws.com",
   SourceArn |-> bucket]

\* S3 may invoke the function for events of the bucket
Permitted(pol, bucket) == \E st \in pol : st.SourceArn = bucket

\* f"{lambda_name}-datacapture"
RuleId(lambda_name) == lambda_name \o <<"-", "datacapture">>

LambdaRule(id, arn, prefix) ==
  [Id |-> id, LambdaFunctionArn |-> arn, Events |-> "s3:ObjectCreated:*", Prefix |-> prefix]

Configuration(lambdas, topics, queues, eventbridge) ==
  [LambdaFunctionConfigurations |-> lambdas, TopicConfigurations |-> topics,
   QueueConfigurations |-> queues, EventBridgeConfiguration |-> eventbridge]

\* what a bucket may hold before the first call
OtherRule == LambdaRule(<<"o">>, "arn:aws:lambda:other", "logs/")
StaleRule == LambdaRule(RuleId(LAMBDA_NAME), LAMBDA_ARN, "old/")
TopicRule == [Id |-> <<"t">>, TopicArn |-> "arn:aws:sns:other"]
QueueRule == [Id |-> <<"q">>, QueueArn |-> "arn:aws:sqs:other"]
PriorConfigurations ==
  {Configuration(l, t, q, e) :
     l \in {<<>>, <<OtherRule>>, <<StaleRule, OtherRule>>},
     t \in {<<>>, <<TopicRule>>}, q \in {<<>>, <<QueueRule>>}, e \in BOOLEAN}

\* calls of ensure_s3_trigger in one history
MaxRuns == 2

TInit ==
  /\ rec = NoAttrs /\ result = NoResult /\ npc = "idle"
  /\ variant = "drift_lambda" /\ SNS_TOPIC_ARN = "" /\ HIdle
  /\ BIdle /\ AIdle /\ CIdle /\ EIdle /\ LIdle /\ SIdle
  /\ tpc = "idle" /\ tbucket = <<>> /\ policy = {} /\ current = <<>>
  /\ notif \in [Buckets -> PriorConfigurations]
  /\ original = notif
  /\ truns = 0 /\ putLog = <<>>

TOthers == <<nvars, hvars, bvars, avars, cvars, evars, lvars, svars>>

\* ensure_s3_trigger(s3, lambda_client, bucket, prefix, lambda_arn, lambda_name) is called
TStart ==
  /\ tpc \in {"idle", "done", "raised"} /\ truns < MaxRuns
  /\ \E b \in Buckets : tbucket' = b
  /\ tpc' = "permission" /\ truns' = truns + 1 /\ current' = <<>>
  /\ UNCHANGED <<TOthers, policy, notif, original, putLog>>

\* ensure_lambda_invoke_permission: add_permission adds the statement, or
\* answers ResourceConflictException because the policy has a statement of
\* that id, which is printed as "already exists"
EnsurePermission ==
  /\ tpc = "permission"
  /\ LET sid == _safe_statement_id(StatementName(tbucket, LAMBDA_NAME))
     IN policy' = IF \E st \in policy : st.Sid = sid
                  THEN policy
                  ELSE policy \cup {Statement(sid, tbucket)}
  /\ tpc' = "get"
  /\ UNCHANGED <<TOthers, tbucket, notif, current, truns, original, putLog>>

\* add_permission raises another error, which leaves ensure_s3_trigger
EnsurePermissionFails ==
  /\ tpc = "permission"
  /\ tpc' = "raised"
  /\ UNCHANGED <<TOthers, tbucket, policy, notif, current, truns, original, putLog>>

\* current = s3.get_bucket_notification_configuration(Bucket=bucket)
GetNotification ==
  /\ tpc = "get"
  /\ current' = notif[tbucket]
  /\ tpc' = "put"
  /\ UNCHANGED <<TOthers, tbucket, policy, notif, truns, original, putLog>>

\* the configuration ensure_s3_trigger builds from what it read; a key it
\* does not pass is absent from the stored configuration
NewConfiguration(cur, lambda_name, lambda_arn, prefix) ==
  LET rule_id == RuleId(lambda_name)
      kept == SelectSeq(cur.LambdaFunctionConfigurations, LAMBDA c : c.Id # rule_id)
  IN Configuration(Append(kept, LambdaRule(rule_id, lambda_arn, prefix)),
                   cur.TopicConfigurations, cur.QueueConfigurations, FALSE)

\* s3.put_bucket_notification_configuration: S3 validates the destination
\* and rejects the call when it may not invoke the function
PutNotification ==
  /\ tpc = "put"
  /\ putLog' = Append(putLog, [bucket |-> tbucket, permitted |-> Permitted(policy, tbucket)])
  /\ IF Permitted(policy, tbucket)
     THEN /\ notif' = [notif EXCEPT
                         ![tbucket] = NewConfiguration(current, LAMBDA_NAME, LAMBDA_ARN, PREFIX)]
          /\ tpc' = "done"
     ELSE /\ tpc' = "raised"
          /\ UNCHANGED notif
  /\ UNCHANGED <<TOthers, tbucket, policy, current, truns, original>>

TNext == TStart \/ EnsurePermission \/ EnsurePermissionFails \/ GetNotification \/ PutNotification

SpecT == TInit /\ [][TNext]_vars

(***************************************************************************)
(* Properties of ensure_s3_trigger, under SpecT *)
(***************************************************************************)

\* C22: put_bucket_notification_configuration is called only after the
\* permission step, and never in a state where S3 lacks the permission to
\* invoke the function for the bucket.
C22_PermissionBeforeNotification ==
  \A k \in DOMAIN putLog : putLog[k].permitted

OursIn(cfg) ==
  SelectSeq(cfg.LambdaFunctionConfigurations, LAMBDA c : c.Id = RuleId(LAMBDA_NAME))
OthersIn(cfg) ==
  SelectSeq(cfg.LambdaFunctionConfigurations, LAMBDA c : c.Id # RuleId(LAMBDA_NAME))

\* C23: once ensure_s3_trigger has written a bucket's notification
\* configuration, after any number of calls, it holds exactly one rule of
\* the Id <lambda-name>-datacapture, and everything else that was there
\* before the first call is still there unchanged: the other Lambda rules,
\* the topic and queue configurations and the EventBridge configuration.
C23_TriggerIdempotentAndPreserving ==
  \A k \in DOMAIN putLog :
    LET b == putLog[k].bucket
    IN putLog[k].permitted =>
         /\ Len(OursIn(notif[b])) = 1
         /\ OthersIn(notif[b]) = OthersIn(original[b])
         /\ notif[b].TopicConfigurations = original[b].TopicConfigurations
         /\ notif[b].QueueConfigurations = original[b].QueueConfigurations
         /\ notif[b].EventBridgeConfiguration = original[b].EventBridgeConfiguration

(***************************************************************************)
(* monitoring/enable_data_capture.py, with the SageMaker endpoints and     *)
(* endpoint configs it acts on.  An endpoint name is one piece of known    *)
(* length; the digests are those hashlib.sha1 gives for the arguments.     *)
(***************************************************************************)
EndpointShort == "iris-endpoint"
EndpointLong == "iris-xxxxxxxxxxxxxxxxxxxxxxxxxxxxxxxxxxxxxxxxxxxxxxxxxxxxxxx"
EndpointLen == [e \in {EndpointShort, EndpointLong} |-> IF e = EndpointShort THEN 13 ELSE 60]
CaptureUri == "s3://bucket/datacapture"
Samplings == {100, 50}
NAME_CAP == 63

\* hashlib.sha1(f"{endpoint_name}|{capture_s3_uri}|{sampling}".encode("utf-8")).hexdigest()[:8]
Sha1Hex8(endpoint_name, capture_s3_uri, sampling) ==
  IF endpoint_name = EndpointShort
  THEN IF sampling = 100 THEN <<"e", "9", "5", "5", "4", "7", "c", "2">>
       ELSE <<"d", "c", "3", "e", "0", "b", "6", "9">>
  ELSE IF sampling = 100 THEN <<"e", "7", "5", "b", "c", "9", "0", "9">>
       ELSE <<"b", "5", "0", "1", "f", "2", "7", "9">>

NamePieceLen(a) == IF a \in DOMAIN EndpointLen THEN EndpointLen[a] ELSE 1
\* s[:n] of a name
RECURSIVE TakeName(_, _)
TakeName(s, n) ==
  IF s = <<>> \/ NamePieceLen(Head(s)) > n THEN <<>>
  ELSE <<Head(s)>> \o TakeName(Tail(s), n - NamePieceLen(Head(s)))

\* base = f"{endpoint_name}-dc-{h}"; return base[:63]
stable_config_name(endpoint_name, capture_s3_uri, sampling) ==
  TakeName(<<endpoint_name, "-", "d", "c", "-">>
             \o Sha1Hex8(endpoint_name, capture_s3_uri, sampling),
           NAME_CAP)

Args(e, u, s) == [endpoint_name |-> e, capture_s3_uri |-> u, sampling_percentage |-> s]
NewName(a) == stable_config_name(a.endpoint_name, a.capture_s3_uri, a.sampling_percentage)

\* the config the endpoint was created with
InitialName(e) == <<e, "-", "c", "o", "n", "f", "i", "g">>
NoCapture == [EnableCapture |-> FALSE]
Capture_(a) ==
  [EnableCapture |-> TRUE, InitialSamplingPercentage |-> a.sampling_percentage,
   DestinationS3Uri |-> a.capture_s3_uri]
NoUpdate == <<>>

\* runs of main in one history
MaxDeploys == 2

EInit ==
  /\ rec = NoAttrs /\ result = NoResult /\ npc = "idle"
  /\ variant = "drift_lambda" /\ SNS_TOPIC_ARN = "" /\ HIdle
  /\ BIdle /\ AIdle /\ CIdle /\ TIdle /\ LIdle /\ SIdle
  /\ epc = "idle" /\ eargs = <<>> /\ current_cfg_name = <<>>
  /\ endpointCfg = [e \in DOMAIN EndpointLen |-> InitialName(e)]
  /\ updating = [e \in DOMAIN EndpointLen |-> NoUpdate]
  /\ configs = [n \in {InitialName(e) : e \in DOMAIN EndpointLen} |-> NoCapture]
  /\ eruns = <<>> /\ ecalls = <<>>

EOthers == <<nvars, hvars, bvars, avars, cvars, tvars, lvars, svars>>

\* the state a run with arguments a leaves once its update has completed
TakenEffect(a) ==
  /\ NewName(a) \in DOMAIN configs
  /\ endpointCfg[a.endpoint_name] = NewName(a)
  /\ updating[a.endpoint_name] = NoUpdate

\* main() starts: parse_args
EStart ==
  /\ epc \in {"idle", "done", "raised"} /\ Len(eruns) < MaxDeploys
  /\ \E e \in DOMAIN EndpointLen, s \in Samplings :
       /\ eargs' = Args(e, CaptureUri, s)
       /\ eruns' = Append(eruns, [args |-> Args(e, CaptureUri, s),
                                  settled |-> TakenEffect(Args(e, CaptureUri, s)),
                                  describe_failed |-> FALSE])
  /\ epc' = "describe_endpoint" /\ current_cfg_name' = <<>>
  /\ UNCHANGED <<EOthers, endpointCfg, updating, configs, ecalls>>

\* ep = sm.describe_endpoint(...); cfg = sm.describe_endpoint_config(current)
DescribeEndpoint ==
  /\ epc = "describe_endpoint"
  /\ current_cfg_name' = endpointCfg[eargs.endpoint_name]
  /\ epc' = "describe_new"
  /\ UNCHANGED <<EOthers, eargs, endpointCfg, updating, configs, eruns, ecalls>>

\* sm.describe_endpoint_config(new_cfg_name) answers: the config exists (no-op)
DescribeNewFound ==
  /\ epc = "describe_new"
  /\ NewName(eargs) \in DOMAIN configs
  /\ epc' = "update"
  /\ UNCHANGED <<EOthers, eargs, current_cfg_name, endpointCfg, updating, configs, eruns, ecalls>>

\* a call of this run as the history keeps it
Call(op, taken) ==
  [run |-> Len(eruns), op |-> op, name |-> NewName(eargs), current |-> current_cfg_name,
   accepted |-> taken]

With(f, k, v) == [x \in DOMAIN f \cup {k} |-> IF x = k THEN v ELSE f[x]]

\* sm.describe_endpoint_config(new_cfg_name) raises a ClientError (there is
\* no such config, or the call failed for another reason): the except
\* branch calls create_endpoint_config, which SageMaker rejects when the
\* name exists
DescribeNewRaises ==
  /\ epc = "describe_new"
  /\ LET not_found == NewName(eargs) \notin DOMAIN configs
     IN /\ eruns' = [eruns EXCEPT ![Len(eruns)].describe_failed = ~not_found]
        /\ ecalls' = Append(ecalls, Call("create_endpoint_config", not_found))
        /\ IF not_found
           THEN /\ configs' = With(configs, NewName(eargs), Capture_(eargs))
                /\ epc' = "update"
           ELSE /\ epc' = "raised"
                /\ UNCHANGED configs
  /\ UNCHANGED <<EOthers, eargs, current_cfg_name, endpointCfg, updating>>

\* update_endpoint without the comparison of the names
UpdateEndpoint_always ==
  /\ epc = "update"
  /\ LET free == updating[eargs.endpoint_name] = NoUpdate
     IN /\ ecalls' = Append(ecalls, Call("update_endpoint", free))
        /\ updating' = IF free THEN [updating EXCEPT ![eargs.endpoint_name] = NewName(eargs)]
                       ELSE updating
        /\ epc' = IF free THEN "done" ELSE "raised"
  /\ UNCHANGED <<EOthers, eargs, current_cfg_name, endpointCfg, configs, eruns>>

\* if current_cfg_name != new_cfg_name: sm.update_endpoint(...), which
\* SageMaker rejects while the endpoint is updating; else nothing
UpdateEndpoint ==
  /\ epc = "update"
  /\ IF current_cfg_name # NewName(eargs)
     THEN LET free == updating[eargs.endpoint_name] = NoUpdate
          IN /\ ecalls' = Append(ecalls, Call("update_endpoint", free))
             /\ updating' = IF free THEN [updating EXCEPT ![eargs.endpoint_name] = NewName(eargs)]
                            ELSE updating
             /\ epc' = IF free THEN "done" ELSE "raised"
     ELSE /\ epc' = "done"
          /\ UNCHANGED <<ecalls, updating>>
  /\ UNCHANGED <<EOthers, eargs, current_cfg_name, endpointCfg, configs, eruns>>

\* SageMaker completes the update of an endpoint
UpdateCompletes ==
  /\ \E e \in DOMAIN EndpointLen :
       /\ updating[e] # NoUpdate
       /\ endpointCfg' = [endpointCfg EXCEPT ![e] = updating[e]]
       /\ updating' = [updating EXCEPT ![e] = NoUpdate]
  /\ UNCHANGED <<EOthers, epc, eargs, current_cfg_name, configs, eruns, ecalls>>

ENext ==
  \/ EStart \/ DescribeEndpoint \/ DescribeNewFound \/ DescribeNewRaises
  \/ UpdateEndpoint \/ UpdateCompletes

SpecE == EInit /\ [][ENext]_vars

(***************************************************************************)
(* Properties of enable_data_capture, under SpecE *)
(***************************************************************************)
CallsOf(r) == SelectSeq(ecalls, LAMBDA c : c.run = r)

\* C24 as stated: every call names the config stable_config_name gives for
\* the run's arguments, update_endpoint is called only when the endpoint's
\* config name differs from it, and a run started after an earlier run with
\* the same arguments has taken effect issues neither create_endpoint_config
\* nor update_endpoint.
C24_RerunIssuesNothing ==
  \A k \in DOMAIN ecalls :
    LET c == ecalls[k]
    IN /\ c.name = NewName(eruns[c.run].args)
       /\ c.op = "update_endpoint" => c.current # c.name
       /\ ~eruns[c.run].settled

\* C24 as the code has it: the same, except that a rerun whose
\* describe_endpoint_config of the config name raises a ClientError although
\* the config exists calls create_endpoint_config; SageMaker rejects that
\* call, and the rerun never calls update_endpoint.
C24_RerunIssuesNothingAccepted ==
  \A k \in DOMAIN ecalls :
    LET c == ecalls[k]
    IN /\ c.name = NewName(eruns[c.run].args)
       /\ c.op = "update_endpoint" => c.current # c.name
       /\ eruns[c.run].settled =>
            /\ c.op = "create_endpoint_config"
            /\ eruns[c.run].describe_failed
            /\ ~c.accepted

\* a rerun with the arguments of the first run, after that run's update
\* completed, has ended without a call
C24_Witness ==
  /\ Len(eruns) = 2 /\ epc = "done"
  /\ eruns[2].settled /\ eruns[2].args = eruns[1].args
  /\ CallsOf(2) = <<>> /\ Len(CallsOf(1)) = 2

(***************************************************************************)
(* wait_lambda_ready, call_with_retry and ensure_lambda of                 *)
(* monitoring/deploy_monitoring.py, with the Lambda function they act on.  *)
(* Times are in seconds.                                                   *)
(***************************************************************************)
TIMEOUT_SEC == 180
POLL_SLEEP == 5
MAX_ATTEMPTS == 12
Latencies == {0, 1}        \* what a get_function_configuration call takes

Fn(state, upd, by) == [exists |-> TRUE, State |-> state, LastUpdateStatus |-> upd, by |-> by]
NoFn == [exists |-> FALSE, State |-> "none", LastUpdateStatus |-> "none", by |-> "nobody"]

\* if state == "Active" and upd in (None, "Successful")
Ready(cfg) == cfg.State = "Active" /\ cfg.LastUpdateStatus \in {"none", "Successful"}
\* if upd == "Failed" or state == "Failed"
FailedCfg(cfg) == cfg.LastUpdateStatus = "Failed" \/ cfg.State = "Failed"
\* Lambda takes no update of a function that is being created or updated
Busy(f) == f.LastUpdateStatus = "InProgress" \/ f.State # "Active"

\* a retry on every error code
Retryable_any_code ==
  {"ResourceConflictException", "TooManyRequestsException", "AccessDeniedException"}

\* if code in ("ResourceConflictException", "TooManyRequestsException")
Retryable == {"ResourceConflictException", "TooManyRequestsException"}
Answers == {"ok", "AccessDeniedException"} \cup Retryable

WaitPcs == {"wait_before_code", "wait_after_code", "wait_after_config", "wait_created"}
UpdatePcs == {"update_code", "update_config"}
\* what follows a wait_lambda_ready that returned
AfterWait(p) ==
  CASE p = "wait_before_code" -> "update_code"
    [] p = "wait_after_code" -> "update_config"
    [] OTHER -> "returned"
\* no wait after an update
AfterUpdate_no_wait(p) == IF p = "update_code" THEN "update_config" ELSE "returned"

\* the wait that follows an update that went through
AfterUpdate(p) == IF p = "update_code" THEN "wait_after_code" ELSE "wait_after_config"

NoWait == [outcome |-> "none", State |-> "none", LastUpdateStatus |-> "none", elapsed |-> 0]
NoCall == [op |-> "none", attempt |-> 0, answer |-> "none", own |-> FALSE]

\* updates another deployment starts in one history
MaxOthers == 1

LInit ==
  /\ rec = NoAttrs /\ result = NoResult /\ npc = "idle"
  /\ variant = "drift_lambda" /\ SNS_TOPIC_ARN = "" /\ HIdle
  /\ BIdle /\ AIdle /\ CIdle /\ TIdle /\ EIdle /\ SIdle
  /\ lpc = "idle"
  /\ fn \in {NoFn, Fn("Active", "none", "nobody"), Fn("Active", "Successful", "nobody"),
             Fn("Active", "InProgress", "other"), Fn("Active", "Failed", "nobody"),
             Fn("Pending", "Successful", "other"), Fn("Inactive", "Successful", "nobody"),
             Fn("Failed", "Successful", "nobody")}
  /\ elapsed = 0 /\ attempt = 0 /\ lerr = "none"
  /\ lwait = NoWait /\ waitsDone = 0 /\ lcall = NoCall /\ accepted = <<>>
  /\ overlap = FALSE /\ others = 0

LOthers == <<nvars, hvars, bvars, avars, cvars, tvars, evars, svars>>

\* ensure_lambda is called: get_function finds the function, or raises
\* ResourceNotFoundException
GetFunction ==
  /\ lpc = "idle"
  /\ lpc' = IF fn.exists THEN "wait_before_code" ELSE "create"
  /\ elapsed' = 0
  /\ UNCHANGED <<LOthers, fn, attempt, lerr, lwait, waitsDone, lcall, accepted, overlap, others>>

Waited(outcome, cfg, t) ==
  [outcome |-> outcome, State |-> cfg.State, LastUpdateStatus |-> cfg.LastUpdateStatus,
   elapsed |-> t]

\* one turn of the loop of wait_lambda_ready, with the timeout tested by >=
WaitPoll_timeout_at ==
  /\ lpc \in WaitPcs
  /\ \E latency \in Latencies :
       LET t == elapsed + latency
       IN IF Ready(fn)
          THEN /\ lwait' = Waited("returned", fn, t)
               /\ waitsDone' = waitsDone + 1
               /\ lpc' = AfterWait(lpc)
               /\ elapsed' = 0 /\ attempt' = 1
               /\ UNCHANGED lerr
          ELSE IF FailedCfg(fn)
          THEN /\ lwait' = Waited("RuntimeError", fn, t)
               /\ lpc' = "raised" /\ lerr' = "RuntimeError"
               /\ elapsed' = t
               /\ UNCHANGED <<waitsDone, attempt>>
          ELSE IF t >= TIMEOUT_SEC
          THEN /\ lwait' = Waited("TimeoutError", fn, t)
               /\ lpc' = "raised" /\ lerr' = "TimeoutError"
               /\ elapsed' = t
               /\ UNCHANGED <<waitsDone, attempt>>
          ELSE /\ lwait' = Waited("sleeping", fn, t)
               /\ elapsed' = t + POLL_SLEEP
               /\ UNCHANGED <<lpc, lerr, waitsDone, attempt>>
  /\ UNCHANGED <<LOthers, fn, lcall, accepted, overlap, others>>

\* one turn of the loop of wait_lambda_ready: get_function_configuration,
\* the three tests, time.sleep(5)
WaitPoll ==
  /\ lpc \in WaitPcs
  /\ \E latency \in Latencies :
       LET t == elapsed + latency
       IN IF Ready(fn)
          THEN /\ lwait' = Waited("returned", fn, t)
               /\ waitsDone' = waitsDone + 1
               /\ lpc' = AfterWait(lpc)
               /\ elapsed' = 0 /\ attempt' = 1
               /\ UNCHANGED lerr
          ELSE IF FailedCfg(fn)
          THEN /\ lwait' = Waited("RuntimeError", fn, t)
               /\ lpc' = "raised" /\ lerr' = "RuntimeError"
               /\ elapsed' = t
               /\ UNCHANGED <<waitsDone, attempt>>
          ELSE IF t > TIMEOUT_SEC
          THEN /\ lwait' = Waited("TimeoutError", fn, t)
               /\ lpc' = "raised" /\ lerr' = "TimeoutError"
               /\ elapsed' = t
               /\ UNCHANGED <<waitsDone, attempt>>
          ELSE /\ lwait' = Waited("sleeping", fn, t)
               /\ elapsed' = t + POLL_SLEEP
               /\ UNCHANGED <<lpc, lerr, waitsDone, attempt>>
  /\ UNCHANGED <<LOthers, fn, lcall, accepted, overlap, others>>

\* what Lambda may answer to an update call
LambdaAnswers(f) ==
  IF Busy(f) THEN Retryable ELSE {"ok", "TooManyRequestsException", "AccessDeniedException"}

Called(op, n, answer) ==
  [op |-> op, attempt |-> n, answer |-> answer,
   own |-> fn.LastUpdateStatus = "InProgress" /\ fn.by = "run"]

\* one turn of the loop of call_with_retry around update_function_code or
\* update_function_configuration
UpdateCall ==
  /\ lpc \in UpdatePcs
  /\ \E answer \in LambdaAnswers(fn) :
       /\ lcall' = Called(lpc, attempt, answer)
       /\ overlap' = (overlap \/ (fn.LastUpdateStatus = "InProgress" /\ fn.by = "run"))
       /\ IF answer = "ok"
          THEN /\ fn' = Fn(fn.State, "InProgress", "run")
               /\ accepted' = Append(accepted, lpc)
               /\ lpc' = AfterUpdate(lpc)
               /\ elapsed' = 0
               /\ UNCHANGED <<attempt, lerr>>
          ELSE IF answer \in Retryable /\ attempt # MAX_ATTEMPTS
          THEN /\ attempt' = attempt + 1
               /\ UNCHANGED <<fn, accepted, lpc, elapsed, lerr>>
          ELSE /\ lpc' = "raised" /\ lerr' = answer
               /\ UNCHANGED <<fn, accepted, attempt, elapsed>>
  /\ UNCHANGED <<LOthers, lwait, waitsDone, others>>

\* except ResourceNotFoundException: create_function, which may fail
CreateFunction ==
  /\ lpc = "create"
  /\ \E ok \in BOOLEAN :
       IF ok
       THEN /\ fn' = Fn("Pending", "Successful", "run")
            /\ lpc' = "wait_created"
            /\ elapsed' = 0
            /\ UNCHANGED lerr
       ELSE /\ lpc' = "raised" /\ lerr' = "AccessDeniedException"
            /\ UNCHANGED <<fn, elapsed>>
  /\ UNCHANGED <<LOthers, attempt, lwait, waitsDone, lcall, accepted, overlap, others>>

\* Lambda finishes the creation or the update under way, well or badly
Progress ==
  /\ fn.exists
  /\ \/ /\ fn.State = "Pending"
        /\ \E s \in {"Active", "Failed"} : fn' = Fn(s, fn.LastUpdateStatus, "nobody")
     \/ /\ fn.State = "Active" /\ fn.LastUpdateStatus = "InProgress"
        /\ \E u \in {"Successful", "Failed"} : fn' = Fn(fn.State, u, "nobody")
  /\ UNCHANGED <<LOthers, lpc, elapsed, attempt, lerr, lwait, waitsDone, lcall, accepted,
                 overlap, others>>

\* another deployment starts an update of the function
OtherUpdate ==
  /\ fn.exists /\ ~Busy(fn) /\ fn.LastUpdateStatus # "Failed"
  /\ lpc \notin {"idle", "returned", "raised"}
  /\ others < MaxOthers
  /\ fn' = Fn(fn.State, "InProgress", "other")
  /\ others' = others + 1
  /\ UNCHANGED <<LOthers, lpc, elapsed, attempt, lerr, lwait, waitsDone, lcall, accepted, overlap>>

LNext == GetFunction \/ WaitPoll \/ UpdateCall \/ CreateFunction \/ Progress \/ OtherUpdate

SpecL == LInit /\ [][LNext]_vars

\* the script goes on running: its loops take their turns
SpecLFair == SpecL /\ WF_vars(WaitPoll) /\ WF_vars(UpdateCall)

(***************************************************************************)
(* Properties of wait_lambda_ready, call_with_retry and ensure_lambda,     *)
(* under SpecL and SpecLFair *)
(***************************************************************************)
WaitSound ==
  /\ lwait.outcome = "returned" =>
       lwait.State = "Active" /\ lwait.LastUpdateStatus \in {"none", "Successful"}
  /\ lwait.outcome = "RuntimeError" =>
       lwait.State = "Failed" \/ lwait.LastUpdateStatus = "Failed"
  /\ lwait.outcome = "TimeoutError" =>
       /\ lwait.elapsed > TIMEOUT_SEC
       /\ ~Ready(lwait) /\ ~FailedCfg(lwait)
  /\ lwait.outcome = "sleeping" =>
       /\ lwait.elapsed <= TIMEOUT_SEC
       /\ ~Ready(lwait) /\ ~FailedCfg(lwait)
  /\ (lpc = "raised" /\ lerr \in {"RuntimeError", "TimeoutError"}) => lwait.outcome = lerr

\* C25: wait_lambda_ready returns only on a configuration whose State is
\* Active and whose LastUpdateStatus is Successful or absent; it raises
\* RuntimeError at the first configuration it reads with State or
\* LastUpdateStatus Failed, raises TimeoutError when more than timeout_sec
\* seconds have gone by and the function is neither ready nor failed, and
\* goes on waiting otherwise; every call of it ends.
C25_WaitSoundAndTerminates ==
  /\ []WaitSound
  /\ (lpc \in WaitPcs) ~> (lpc \notin WaitPcs)

\* a wait has ended by TimeoutError, after a turn at exactly timeout_sec
\* seconds went on waiting
C25_Witness ==
  /\ lpc = "raised" /\ lerr = "TimeoutError"
  /\ lwait.elapsed = TIMEOUT_SEC + POLL_SLEEP

BothUpdates == <<"update_code", "update_config">>

\* C26: on the update path ensure_lambda calls update_function_code only
\* after a first wait_lambda_ready returned and update_function_configuration
\* only after the code update was accepted and a second wait returned; no
\* update call is made while an update this run started is in progress; and
\* ensure_lambda returns only after a last wait returned (the third on the
\* update path, the one after create_function otherwise).
C26_UpdatesBetweenWaits ==
  /\ accepted \in {<<>>, <<"update_code">>, BothUpdates}
  /\ lpc = "update_code" => waitsDone = 1 /\ accepted = <<>>
  /\ lpc = "update_config" => waitsDone = 2 /\ accepted = <<"update_code">>
  /\ lcall.op = "update_code" => waitsDone >= 1
  /\ lcall.op = "update_config" => waitsDone >= 2
  /\ ~overlap /\ ~lcall.own
  /\ lpc = "returned" =>
       /\ lwait.outcome = "returned"
       /\ \/ accepted = BothUpdates /\ waitsDone = 3
          \/ accepted = <<>> /\ waitsDone = 1 /\ lcall = NoCall

\* ensure_lambda has returned on the update path, with another deployment's
\* update in between
C26_Witness ==
  /\ lpc = "returned" /\ accepted = BothUpdates /\ waitsDone = 3 /\ others = 1

ClaimedRetryable == {"ResourceConflictException", "TooManyRequestsException"}

\* C27: call_with_retry calls fn at most max_attempts times; it stops at the
\* first call that succeeds; it calls again only after a
\* ResourceConflictException or TooManyRequestsException that was not the
\* max_attempts-th call; any other error leaves it at once, and so does the
\* retryable error of the max_attempts-th call.
C27_RetryOnlyRetryable ==
  /\ lcall.attempt <= MAX_ATTEMPTS
  /\ lcall.answer = "ok" => lpc # lcall.op /\ lcall.op = accepted[Len(accepted)]
  /\ (lpc \in UpdatePcs /\ lcall.op = lpc) =>
        /\ lcall.answer \in ClaimedRetryable
        /\ lcall.attempt < MAX_ATTEMPTS
        /\ attempt = lcall.attempt + 1
  /\ (lpc \in UpdatePcs /\ lcall.op # lpc) => attempt = 1
  /\ lcall.answer \notin ClaimedRetryable \cup {"ok", "none"} =>
        lpc = "raised" /\ lerr = lcall.answer
  /\ (lcall.answer \in ClaimedRetryable /\ lcall.attempt = MAX_ATTEMPTS) =>
        lpc = "raised" /\ lerr = lcall.answer
  /\ lerr \in ClaimedRetryable => lcall.attempt = MAX_ATTEMPTS

\* the twelfth call of update_function_configuration met a conflict
C27_Witness ==
  /\ lpc = "raised" /\ lerr = "ResourceConflictException"
  /\ lcall.op = "update_config" /\ lcall.attempt = MAX_ATTEMPTS

(***************************************************************************)
(* delete_schedule_if_exists and main of monitoring/mm_create_schedule.py, *)
(* with the monitoring schedule of the given name.  Times are in seconds.  *)
(***************************************************************************)
DELETE_TIMEOUT == 300
DELETE_SLEEP == 5
DescribeLatencies == {0, 1}    \* what a describe_monitoring_schedule call takes

SInit ==
  /\ rec = NoAttrs /\ result = NoResult /\ npc = "idle"
  /\ variant = "drift_lambda" /\ SNS_TOPIC_ARN = "" /\ HIdle
  /\ BIdle /\ AIdle /\ CIdle /\ TIdle /\ EIdle /\ LIdle
  /\ spc = "idle"
  /\ schedule \in {"absent", "scheduled"}
  /\ selapsed = 0 /\ slast = "none" /\ serr = "none" /\ screated = <<>>

SOthers == <<nvars, hvars, bvars, avars, cvars, tvars, evars, lvars>>

\* delete_schedule_if_exists is called: the first describe_monitoring_schedule
\* raises ResourceNotFound (return) or finds the schedule
DescribeFirst ==
  /\ spc = "idle"
  /\ IF schedule = "absent"
     THEN slast' = "ResourceNotFound" /\ spc' = "create"
     ELSE slast' = "found" /\ spc' = "delete"
  /\ UNCHANGED <<SOthers, schedule, selapsed, serr, screated>>

\* sm_client.delete_monitoring_schedule: SageMaker starts the deletion, or
\* refuses it
DeleteSchedule ==
  /\ spc = "delete"
  /\ \E ok \in BOOLEAN :
       IF ok
       THEN /\ schedule' = "deleting" /\ spc' = "poll" /\ selapsed' = 0
            /\ UNCHANGED serr
       ELSE /\ spc' = "raised" /\ serr' = "ClientError"
            /\ UNCHANGED <<schedule, selapsed>>
  /\ UNCHANGED <<SOthers, slast, screated>>

\* a loop that returns when the time is up
PollDeleted_gives_up ==
  /\ spc = "poll"
  /\ IF selapsed < DELETE_TIMEOUT
     THEN \E latency \in DescribeLatencies :
            IF schedule = "absent"
            THEN /\ slast' = "ResourceNotFound" /\ spc' = "create"
                 /\ selapsed' = selapsed + latency
                 /\ UNCHANGED serr
            ELSE /\ slast' = "found"
                 /\ selapsed' = selapsed + latency + DELETE_SLEEP
                 /\ UNCHANGED <<spc, serr>>
     ELSE /\ spc' = "create"
          /\ UNCHANGED <<slast, selapsed, serr>>
  /\ UNCHANGED <<SOthers, schedule, screated>>

\* one turn of `while time.time() < deadline`: describe, then sleep or
\* return; past the deadline raise TimeoutError
PollDeleted ==
  /\ spc = "poll"
  /\ IF selapsed < DELETE_TIMEOUT
     THEN \E latency \in DescribeLatencies :
            IF schedule = "absent"
            THEN /\ slast' = "ResourceNotFound" /\ spc' = "create"
                 /\ selapsed' = selapsed + latency
                 /\ UNCHANGED serr
            ELSE /\ slast' = "found"
                 /\ selapsed' = selapsed + latency + DELETE_SLEEP
                 /\ UNCHANGED <<spc, serr>>
     ELSE /\ spc' = "raised" /\ serr' = "TimeoutError"
          /\ UNCHANGED <<slast, selapsed>>
  /\ UNCHANGED <<SOthers, schedule, screated>>

\* monitor.create_monitoring_schedule(...): SageMaker rejects the name of a
\* schedule that exists
CreateSchedule ==
  /\ spc = "create"
  /\ screated' = Append(screated, [existing |-> schedule, after |-> slast])
  /\ IF schedule = "absent"
     THEN schedule' = "scheduled" /\ spc' = "done" /\ UNCHANGED serr
     ELSE spc' = "raised" /\ serr' = "ClientError" /\ UNCHANGED schedule
  /\ UNCHANGED <<SOthers, selapsed, slast>>

\* SageMaker completes the deletion
DeletionCompletes ==
  /\ schedule = "deleting"
  /\ schedule' = "absent"
  /\ UNCHANGED <<SOthers, spc, selapsed, slast, serr, screated>>

SNext == DescribeFirst \/ DeleteSchedule \/ PollDeleted \/ CreateSchedule \/ DeletionCompletes

SpecS == SInit /\ [][SNext]_vars

(***************************************************************************)
(* Properties of mm_create_schedule, under SpecS *)
(***************************************************************************)

\* C28: create_monitoring_schedule is called only when no schedule of the
\* name exists; delete_schedule_if_exists returns only after a
\* describe_monitoring_schedule raised ResourceNotFound; when the time is up
\* and no describe has raised it, it raises TimeoutError and
\* create_monitoring_schedule is not called.
C28_CreateOnlyWhenAbsent ==
  /\ \A k \in DOMAIN screated :
       screated[k].existing = "absent" /\ screated[k].after = "ResourceNotFound"
  /\ spc \in {"create", "done"} => slast = "ResourceNotFound"
  /\ spc = "poll" => slast \in {"found"} /\ schedule \in {"deleting", "absent"}
  /\ serr = "TimeoutError" =>
       /\ spc = "raised" /\ screated = <<>>
       /\ selapsed >= DELETE_TIMEOUT /\ slast = "found"

\* the deletion did not complete in time: TimeoutError, and no create call
C28_Witness ==
  /\ spc = "raised" /\ serr = "TimeoutError"
  /\ schedule = "deleting" /\ screated = <<>>

====
